---- MODULE Spec2Model ----
(***************************************************************************)
(* A model of the SBIR award harvester: the storage gateway                *)
(* (src/src/database.py), the full harvest (src/src/initial_download.py)   *)
(* and the incremental sync (src/src/update_checker.py), with the          *)
(* configuration of src/config/config.py.                                  *)
(*                                                                         *)
(* Data.  A JSON value is a tagged record: Null, StrV(cs) with cs a         *)
(* sequence of one-character strings, IntV(n), and RealV(m, s) for the       *)
(* decimal m / 10^s that float() yields.  An award (a Python dict) is a    *)
(* function from the keys it carries to JSON values.                       *)
(***************************************************************************)
EXTENDS Integers, Sequences, FiniteSets, TLC

\* ------------------------------------------------------------------------
\* JSON values and the Python built-ins the code applies to them
\* ------------------------------------------------------------------------

Null == [null |-> TRUE]
StrV(cs) == [str |-> cs]
IntV(n) == [int |-> n]
RealV(m, s) == [num |-> m, scale |-> s]

IsNull(v) == DOMAIN v = {"null"}
IsStr(v) == DOMAIN v = {"str"}
IsInt(v) == DOMAIN v = {"int"}
IsReal(v) == DOMAIN v = {"num", "scale"}

\* bool(v): None, "", 0 and 0.0 are falsy.
Truthy(v) ==
    IF IsNull(v) THEN FALSE
    ELSE IF IsStr(v) THEN Len(v.str) > 0
    ELSE IF IsInt(v) THEN v.int # 0
    ELSE v.num # 0

\* dict.get(key): the value, or None when the key is absent.
Get(award, key) == IF key \in DOMAIN award THEN award[key] ELSE Null

DigitChars == {"0", "1", "2", "3", "4", "5", "6", "7", "8", "9"}

DigitVal(c) ==
    CASE c = "0" -> 0 [] c = "1" -> 1 [] c = "2" -> 2 [] c = "3" -> 3
      [] c = "4" -> 4 [] c = "5" -> 5 [] c = "6" -> 6 [] c = "7" -> 7
      [] c = "8" -> 8 [] c = "9" -> 9

DigitChar(d) ==
    CASE d = 0 -> "0" [] d = 1 -> "1" [] d = 2 -> "2" [] d = 3 -> "3"
      [] d = 4 -> "4" [] d = 5 -> "5" [] d = 6 -> "6" [] d = 7 -> "7"
      [] d = 8 -> "8" [] d = 9 -> "9"

IsSignChar(c) == c \in {"+", "-"}

AllDigits(cs) == \A i \in 1..Len(cs) : cs[i] \in DigitChars

\* The number a digit string denotes (0 for the empty string).
RECURSIVE DigitsVal(_)
DigitsVal(cs) ==
    IF Len(cs) = 0 THEN 0
    ELSE 10 * DigitsVal(SubSeq(cs, 1, Len(cs) - 1)) + DigitVal(cs[Len(cs)])

RECURSIVE Pow10(_)
Pow10(k) == IF k = 0 THEN 1 ELSE 10 * Pow10(k - 1)

\* str(n) of an int: its decimal digits, "-" first when negative.
RECURSIVE NatToChars(_)
NatToChars(n) ==
    IF n < 10 THEN <<DigitChar(n)>>
    ELSE Append(NatToChars(n \div 10), DigitChar(n % 10))

IntToChars(n) == IF n < 0 THEN <<"-">> \o NatToChars(0 - n) ELSE NatToChars(n)

\* str.replace(',', ''): every comma removed, the rest in order.
RECURSIVE StripCommas(_)
StripCommas(cs) ==
    IF Len(cs) = 0 THEN <<>>
    ELSE IF Head(cs) = "," THEN StripCommas(Tail(cs))
    ELSE <<Head(cs)>> \o StripCommas(Tail(cs))

\* A float with its trailing fractional zeros dropped, so that equal
\* numbers are equal values: 1234.50 is RealV(12345, 1).
RECURSIVE NormReal(_, _)
NormReal(m, s) ==
    IF s > 0 /\ m % 10 = 0 THEN NormReal(m \div 10, s - 1) ELSE RealV(m, s)

ParseFailure == [failure |-> TRUE]
IsFailure(v) == DOMAIN v = {"failure"}

Unsigned(cs) == IF Len(cs) > 0 /\ IsSignChar(cs[1]) THEN Tail(cs) ELSE cs
SignOf(cs) == IF Len(cs) > 0 /\ cs[1] = "-" THEN 0 - 1 ELSE 1

DotPositions(cs) == {i \in 1..Len(cs) : cs[i] = "."}

\* float(text) on the characters the model draws (digits, signs, ".", and
\* any other character, which no number contains): an optional sign, then
\* digits with at most one ".", at least one digit in all.
FloatOfChars(cs) ==
    LET body == Unsigned(cs)
        dots == DotPositions(body)
    IN  IF Cardinality(dots) > 1 THEN ParseFailure
        ELSE IF dots = {}
        THEN IF Len(body) > 0 /\ AllDigits(body)
             THEN NormReal(SignOf(cs) * DigitsVal(body), 0)
             ELSE ParseFailure
        ELSE LET d == CHOOSE i \in dots : TRUE
                 whole == SubSeq(body, 1, d - 1)
                 frac == SubSeq(body, d + 1, Len(body))
             IN  IF AllDigits(whole) /\ AllDigits(frac) /\ Len(whole) + Len(frac) > 0
                 THEN NormReal(SignOf(cs) * (DigitsVal(whole) * Pow10(Len(frac))
                                             + DigitsVal(frac)), Len(frac))
                 ELSE ParseFailure

\* float(str(v).replace(',', '')) for a JSON value v that is not None.
FloatOfStripped(v) ==
    IF IsStr(v) THEN FloatOfChars(StripCommas(v.str))
    ELSE IF IsInt(v) THEN FloatOfChars(StripCommas(IntToChars(v.int)))
    ELSE v

\* int(v): an int is itself; a float is truncated towards zero; a text is
\* an optional sign and digits.
IntOf(v) ==
    IF IsInt(v) THEN v
    ELSE IF IsReal(v)
    THEN IF v.num < 0
         THEN IntV(0 - ((0 - v.num) \div Pow10(v.scale)))
         ELSE IntV(v.num \div Pow10(v.scale))
    ELSE IF IsStr(v)
    THEN LET body == Unsigned(v.str)
         IN  IF Len(body) > 0 /\ AllDigits(body)
             THEN IntV(SignOf(v.str) * DigitsVal(body))
             ELSE ParseFailure
    ELSE ParseFailure

\* ------------------------------------------------------------------------
\* Configuration (src/config/config.py)
\* ------------------------------------------------------------------------

MAX_RETRIES == 3
UPDATE_CHECK_DAYS == 7
UPDATE_LOOKBACK_DAYS == 30
SAFETY_LIMIT == 10000

\* BATCH_SIZE (1000 in config.py) and CHECKPOINT_INTERVAL (50) are scaled
\* down so that pages hold whole records and a checkpoint is within reach.
BATCH_SIZE == 2
CHECKPOINT_INTERVAL == 1

REQUIRED_FIELDS ==
    <<"firm", "award_title", "agency", "phase", "program",
      "award_amount", "proposal_award_date", "contract">>

\* ------------------------------------------------------------------------
\* Schema (database.py, create_tables and the INSERT of insert_awards)
\* ------------------------------------------------------------------------

\* The columns the INSERT names, in its order; raw_data is bound as well.
AWARD_COLUMNS ==
    <<"firm", "award_title", "agency", "branch", "phase", "program",
      "agency_tracking_number", "contract", "proposal_award_date",
      "contract_end_date", "solicitation_number", "solicitation_year",
      "topic_code", "award_year", "award_amount", "duns", "uei",
      "hubzone_owned", "socially_economically_disadvantaged", "women_owned",
      "number_employees", "company_url", "address1", "address2", "city",
      "state", "zip", "poc_name", "poc_title", "poc_phone", "poc_email",
      "pi_name", "pi_title", "pi_phone", "pi_email", "ri_name",
      "ri_poc_name", "ri_poc_phone", "research_area_keywords", "abstract",
      "award_link">>

BIND_PARAMETERS == {AWARD_COLUMNS[i] : i \in 1..Len(AWARD_COLUMNS)} \cup {"raw_data"}

\* UNIQUE(contract, agency, agency_tracking_number)
UNIQUE_COLUMNS == <<"contract", "agency", "agency_tracking_number">>

INT_FIELDS == <<"solicitation_year", "award_year", "number_employees", "award_link">>

METADATA_KEYS ==
    {"last_download_offset", "last_download_time", "initial_download_completed",
     "total_records_downloaded", "download_interrupted", "last_update_check",
     "last_update_new_records"}

Absent == [absent |-> TRUE]
IsAbsent(v) == DOMAIN v = {"absent"}

\* datetime.isoformat() of the time t, and the JSON text of an award.
IsoFormat(t) == [iso |-> t]
JsonDumps(award) == [json |-> award]

TrueText == StrV(<<"t", "r", "u", "e">>)
FalseText == StrV(<<"f", "a", "l", "s", "e">>)

\* ------------------------------------------------------------------------
\* Validator (initial_download.py, validate_batch)
\* ------------------------------------------------------------------------

\* [field for field in REQUIRED_FIELDS if field not in award]
missing_fields(award) == SelectSeq(REQUIRED_FIELDS, LAMBDA field : field \notin DOMAIN award)

\* The two `continue` tests of the loop body, negated.
KeepsAwardFirmOnly(award) ==
    /\ Len(missing_fields(award)) = 0
    /\ ~(~Truthy(Get(award, "firm")))

KeepsAward(award) ==
    /\ Len(missing_fields(award)) = 0
    /\ ~(~Truthy(Get(award, "firm")) \/ ~Truthy(Get(award, "award_title")))

RECURSIVE validate_loop(_, _)
validate_loop(awards, valid_awards) ==
    IF Len(awards) = 0 THEN valid_awards
    ELSE validate_loop(Tail(awards),
                       IF KeepsAward(Head(awards))
                       THEN Append(valid_awards, Head(awards))
                       ELSE valid_awards)

validate_batch(awards) == validate_loop(awards, <<>>)

\* ------------------------------------------------------------------------
\* Storage gateway (database.py)
\* ------------------------------------------------------------------------

\* award_amount: coerced only when the key is there and the value truthy.
CoerceAmount(processed) ==
    IF "award_amount" \in DOMAIN processed /\ Truthy(processed["award_amount"])
    THEN [processed EXCEPT !["award_amount"] =
            LET f == FloatOfStripped(@)
            IN  IF IsFailure(f) THEN Null ELSE f]
    ELSE processed

\* processed['raw_data'] = json.dumps(award)
WithRawData(processed, award) ==
    [k \in DOMAIN processed \cup {"raw_data"} |->
        IF k = "raw_data" THEN JsonDumps(award) ELSE processed[k]]

CoerceInt(processed, field) ==
    IF field \in DOMAIN processed /\ ~IsNull(processed[field])
    THEN [processed EXCEPT ![field] =
            LET n == IntOf(@) IN IF IsFailure(n) THEN Null ELSE n]
    ELSE processed

RECURSIVE CoerceInts(_, _)
CoerceInts(processed, fields) ==
    IF Len(fields) = 0 THEN processed
    ELSE CoerceInts(CoerceInt(processed, Head(fields)), Tail(fields))

process_award_for_db(award) ==
    CoerceInts(WithRawData(CoerceAmount(award), award), INT_FIELDS)

\* The declared types of the awards table (create_tables): four INTEGER
\* columns, award_amount REAL, every other bound column TEXT.
INTEGER_COLUMNS == {"solicitation_year", "award_year", "number_employees", "award_link"}
REAL_COLUMNS == {"award_amount"}

\* The text SQLite renders a float as (printf "%!.15g"; the floats here
\* have at most 15 significant digits).  With the decimal exponent from -4
\* up to 14: the whole part, ".", and the fractional digits, "0" when
\* there are none.  Otherwise the exponent form: the first significant
\* digit, ".", the other significant digits ("0" when there are none),
\* "e", the sign of the exponent and its digits, two at least.
RECURSIVE PadDigits(_, _)
PadDigits(n, width) ==
    IF width = 0 THEN <<>>
    ELSE Append(PadDigits(n \div 10, width - 1), DigitChar(n % 10))

RECURSIVE StripZeros(_)
StripZeros(cs) ==
    IF Len(cs) > 1 /\ cs[Len(cs)] = "0" THEN StripZeros(SubSeq(cs, 1, Len(cs) - 1)) ELSE cs

ExponentChars(e) ==
    LET mag == IF e < 0 THEN 0 - e ELSE e
    IN  <<"e", IF e < 0 THEN "-" ELSE "+">>
        \o (IF mag < 10 THEN <<"0">> ELSE <<>>) \o NatToChars(mag)

RealToChars(v) ==
    LET mag == IF v.num < 0 THEN 0 - v.num ELSE v.num
        sign == IF v.num < 0 THEN <<"-">> ELSE <<>>
        digits == NatToChars(mag)
        e == Len(digits) - 1 - v.scale
    IN  IF mag # 0 /\ (e < 0 - 4 \/ e >= 15)
        THEN LET sig == StripZeros(digits)
             IN  sign \o <<sig[1], ".">>
                 \o (IF Len(sig) > 1 THEN Tail(sig) ELSE <<"0">>)
                 \o ExponentChars(e)
        ELSE LET whole == NatToChars(mag \div Pow10(v.scale))
                 frac == IF v.scale = 0 THEN <<"0">>
                         ELSE PadDigits(mag % Pow10(v.scale), v.scale)
             IN  sign \o whole \o <<".">> \o frac

\* A number as SQLite keeps it in an INTEGER column: a float without a
\* fractional part becomes the integer.
IntegerIfWhole(v) == IF IsReal(v) /\ v.scale = 0 THEN IntV(v.num) ELSE v

\* The column affinity SQLite applies to a bound value before storing it.
\* TEXT: a number becomes its text.  REAL: an integer, and a text that
\* reads as a number, become a float.  INTEGER: a float or a text that
\* reads as a number becomes an integer when it has no fractional part.
\* NULL, and a text that does not read as a number, are stored as bound.
ApplyAffinity(c, v) ==
    IF c \in INTEGER_COLUMNS
    THEN IF IsReal(v) THEN IntegerIfWhole(v)
         ELSE IF IsStr(v) /\ ~IsFailure(FloatOfChars(v.str))
         THEN IntegerIfWhole(FloatOfChars(v.str))
         ELSE v
    ELSE IF c \in REAL_COLUMNS
    THEN IF IsInt(v) THEN RealV(v.int, 0)
         ELSE IF IsStr(v) /\ ~IsFailure(FloatOfChars(v.str)) THEN FloatOfChars(v.str)
         ELSE v
    ELSE IF IsInt(v) THEN StrV(IntToChars(v.int))
         ELSE IF IsReal(v) THEN StrV(RealToChars(v))
         ELSE v

\* A stored row: the values bound to the INSERT, as the columns' types
\* store them, and the two timestamps the schema fills in.  Rows are kept
\* in rowid order.
NewRow(processed, t) ==
    [col |-> [c \in BIND_PARAMETERS |-> ApplyAffinity(c, processed[c])],
     created_at |-> t,
     updated_at |-> t]

\* Each of the three columns UNIQUE on its own.
UniqueConflictAny(row, processed) ==
    \E i \in 1..Len(UNIQUE_COLUMNS) :
        /\ ~IsNull(row.col[UNIQUE_COLUMNS[i]])
        /\ row.col[UNIQUE_COLUMNS[i]] = processed[UNIQUE_COLUMNS[i]]

\* The UNIQUE constraint as SQLite applies it: two rows conflict when the
\* three columns are equal and none is NULL (NULLs are distinct in UNIQUE).
UniqueConflict(row, processed) ==
    \A i \in 1..Len(UNIQUE_COLUMNS) :
        /\ ~IsNull(row.col[UNIQUE_COLUMNS[i]])
        /\ row.col[UNIQUE_COLUMNS[i]] = processed[UNIQUE_COLUMNS[i]]

\* INSERT OR REPLACE: the conflicting rows are deleted, a new row inserted.
InsertOrReplace(rows, processed, t) ==
    LET new == NewRow(processed, t)
    IN  Append(SelectSeq(rows, LAMBDA row : ~UniqueConflict(row, new.col)), new)

RECURSIVE ExecuteMany(_, _, _)
ExecuteMany(rows, processed_awards, t) ==
    IF Len(processed_awards) = 0 THEN rows
    ELSE ExecuteMany(InsertOrReplace(rows, Head(processed_awards), t),
                     Tail(processed_awards), t)

\* A dict that lacks a named parameter makes sqlite3 raise ProgrammingError.
BindsAll(processed) == BIND_PARAMETERS \subseteq DOMAIN processed

\* insert_awards on the table `rows` at time t: whether it raised, the table
\* as committed, and the count returned (cursor.rowcount: one per record).
\* What executemany did before it raised is never committed: both callers
\* close the connection on the way out.
insert_awards(rows, awards, t) ==
    IF Len(awards) = 0
    THEN [raised |-> FALSE, rows |-> rows, inserted_count |-> 0]
    ELSE LET processed_awards ==
                 [i \in 1..Len(awards) |-> process_award_for_db(awards[i])]
         IN  IF \E i \in 1..Len(awards) : ~BindsAll(processed_awards[i])
             THEN [raised |-> TRUE, rows |-> rows, inserted_count |-> 0]
             ELSE [raised |-> FALSE,
                   rows |-> ExecuteMany(rows, processed_awards, t),
                   inserted_count |-> Len(awards)]

get_record_count(rows) == Len(rows)

get_metadata(meta, key) == IF IsAbsent(meta[key]) THEN Null ELSE meta[key]

set_metadata(meta, key, value) == [meta EXCEPT ![key] = value]

\* ------------------------------------------------------------------------
\* The remote source
\* ------------------------------------------------------------------------

MaxSource == 5
MaxResumeSource == 2
MaxRuns == 2

\* The clock counts ticks, TicksPerDay to the day; a sync runs on day SyncDay.
TicksPerDay == 2
SyncDay == 40

\* strftime("%Y-%m-%d") of a day: a text of fixed width whose order as a
\* text is the order of the days.  Here: the day number on three digits.
DateText(day) ==
    StrV(<<DigitChar(day \div 100), DigitChar((day \div 10) % 10), DigitChar(day % 10)>>)

\* A day within the look-back window of the sync, and a day before it.
RecentDay == SyncDay - 5
OldDay == SyncDay - UPDATE_LOOKBACK_DAYS - 5

ColumnSet == {AWARD_COLUMNS[i] : i \in 1..Len(AWARD_COLUMNS)}

\* The record at position i of the source: every column of the API's
\* payload, the descriptive ones set, identity (C<i>, N, T<i>).
FullAward(i) ==
    [c \in ColumnSet |->
        CASE c = "firm" -> StrV(<<"F">>)
          [] c = "award_title" -> StrV(<<"A">>)
          [] c = "agency" -> StrV(<<"N">>)
          [] c = "phase" -> StrV(<<"1">>)
          [] c = "program" -> StrV(<<"S">>)
          [] c = "award_amount" -> StrV(<<"1", ",", "5">>)
          [] c = "proposal_award_date" -> DateText(RecentDay)
          [] c = "contract" -> StrV(<<"C", DigitChar(i)>>)
          [] c = "agency_tracking_number" -> StrV(<<"T", DigitChar(i)>>)
          [] OTHER -> Null]

Without(award, key) == [k \in DOMAIN award \ {key} |-> award[k]]
With(award, key, value) == [award EXCEPT ![key] = value]

\* A record of the source is one of: complete and valid; valid with a null
\* agency_tracking_number; lacking a required field; valid but lacking the
\* optional column branch.
SourceKinds == {"valid", "nullatn", "invalid", "nocolumn"}

AwardOfKind(kind, i) ==
    CASE kind = "valid" -> FullAward(i)
      [] kind = "nullatn" -> [FullAward(i) EXCEPT !["agency_tracking_number"] = Null]
      [] kind = "invalid" -> Without(FullAward(i), "phase")
      [] kind = "nocolumn" -> Without(FullAward(i), "branch")

SourcesOver(kindset, maxlen) ==
    UNION {{[i \in 1..n |-> AwardOfKind(kinds[i], i)] : kinds \in [1..n -> kindset]}
           : n \in 0..maxlen}

\* A single run from an empty store stores no identity twice, so the null
\* tracking number plays no part in it; a record that makes the insert
\* raise ends every run that reaches it, so it plays none across runs.
Sources == SourcesOver(SourceKinds \ {"nullatn"}, MaxSource)

\* The sources of several runs: every short source, and the source of one
\* full page and one record more, all valid, which a run that stopped after
\* its first page leaves half stored.
TwoPageSource == [i \in 1..(BATCH_SIZE + 1) |-> FullAward(i)]
ResumeSources == SourcesOver(SourceKinds \ {"nocolumn"}, MaxResumeSource) \cup {TwoPageSource}

Min(a, b) == IF a < b THEN a ELSE b

\* The records the source holds at [start, start + rows).
SourcePage(src, start, rows) == SubSeq(src, start + 1, Min(start + rows, Len(src)))

\* ------------------------------------------------------------------------
\* Paginated fetcher (initial_download.py, fetch_batch)
\* ------------------------------------------------------------------------

\* What one HTTP attempt can bring: a bare array, an object with docs, an
\* object without docs, a JSON scalar, a transport failure (connection
\* error, timeout, non-2xx status), or a body that is not JSON.  What
\* response.json() raises on such a body depends on the requests library
\* the build runs on: requests.exceptions.JSONDecodeError, which is a
\* RequestException (requests 2.27 and later); json.JSONDecodeError
\* (earlier releases); or simplejson's JSONDecodeError, a ValueError that
\* is neither (earlier releases with simplejson installed).
BadJsonKinds == {"badjson_request", "badjson_json", "badjson_value"}

ResponseKinds == {"array", "docs", "object", "scalar", "transport"} \cup BadJsonKinds

\* The loop over range(MAX_RETRIES), from attempt index `attempt` on.
\* `None` is the failure value; otherwise the awards.
None == [none |-> TRUE]
IsNone(v) == v = None

\* An exception that leaves fetch_batch, and the mark of an attempt that
\* is followed by another.
Raised == [raised |-> TRUE]
IsRaised(v) == v = Raised
Retry == [retry |-> TRUE]

\* Line 97: if attempt < MAX_RETRIES - 1
AttemptsRemainNever(attempt) == FALSE
AttemptsRemain(attempt) == attempt < MAX_RETRIES - 1

\* Lines 71-105: one pass of the loop, on the response `kind`: what the
\* call returns, that it raises, or that it goes on to the next attempt.
attempt_outcome(kind, page, attempt) ==
    CASE kind = "array" -> [awards |-> page]
      [] kind = "docs" -> [awards |-> page]
      [] kind = "object" -> [awards |-> <<>>]
      [] kind = "scalar" -> None
      [] kind \in {"transport", "badjson_request"} ->
           IF AttemptsRemain(attempt) THEN Retry ELSE None
      [] kind = "badjson_json" -> None
      [] kind = "badjson_value" -> Raised

RECURSIVE fetch_attempts(_, _, _)
fetch_attempts(responses, page, attempt) ==
    IF attempt >= MAX_RETRIES THEN None
    ELSE LET outcome == attempt_outcome(responses[attempt + 1], page, attempt)
         IN  IF outcome = Retry
             THEN fetch_attempts(responses, page, attempt + 1)
             ELSE outcome

fetch_batch(responses, page) == fetch_attempts(responses, page, 0)

\* What the attempts of one call can meet: failures of the kinds that the
\* RequestException handler catches, ended by another kind of response or
\* by the last attempt.  One build raises one kind of JSON error.  (Written
\* as an image, so that the set is enumerated once.)
ResponseScripts ==
    {s : s \in {r \in [1..MAX_RETRIES -> ResponseKinds] :
        /\ \A i \in 1..(MAX_RETRIES - 1) :
              r[i] \notin {"transport", "badjson_request"} => r[i + 1] = r[i]
        /\ Cardinality({r[i] : i \in 1..MAX_RETRIES} \cap BadJsonKinds) <= 1}}


\* ------------------------------------------------------------------------
\* State
\* ------------------------------------------------------------------------

VARIABLES
    awards_table,       \* the awards table: a sequence of rows, in rowid order
    scraper_metadata,   \* the scraper_metadata table: key -> value or Absent
    now,                \* the wall clock, in ticks
    source,             \* the records the remote source holds (it never changes)
    hpc,                \* where download_all_awards is: idle, loop, fetch, batch, finish, returned
    resume,             \* the resume argument of the current run
    offset,
    consecutive_empty_batches,
    total_downloaded,   \* self.total_downloaded
    interrupted,        \* self.interrupted
    batch,              \* the awards fetch_batch returned for the current iteration
    returned,           \* the value download_all_awards returned: "True", "False", or "none"
    runs,               \* the number of runs started
    first_fetch,        \* the offset of this run's first fetch_batch call (-1: none yet)
    last_fetch,         \* the offset of this run's latest fetch_batch call (-1: none yet)
    last_checkpoint,    \* this run's latest write to last_download_offset (-1: none yet)
    start_count,        \* the stored record count when this run started
    all_resumed,        \* every run so far started on an empty store or with resume
    prior_aborted,      \* the run before this one returned False
    gap_served,         \* some run was served an empty page below the source's end
    exit_path,          \* how this run ended: none, fetch, fatal, storage, cancelled, completed
    served,             \* the records this run's pages brought: source position, fetch offset
    delayed,            \* time.sleep(API_DELAY) was called since this run's latest fetch
    ppc,                \* where the record pipeline is: off, input, validated, stored, raised
    input_awards,       \* the batch handed to validate_batch
    validated,          \* what validate_batch returned for input_awards
    inserted,           \* what insert_awards returned for them
    spc,                \* where check_for_updates is: off, idle, fetching, fetched, returned
    force,              \* the force argument of check_for_updates
    gate_open,          \* check_for_updates went past its schedule test
    existing_contracts, \* what get_existing_contracts returned
    sync_offset,        \* offset of fetch_recent_awards
    all_recent_awards,  \* all_recent_awards of fetch_recent_awards
    fetched,            \* every record the pages of this sync brought, in order
    new_records_found,  \* self.new_records_found
    upserted,           \* the awards check_for_updates handed to insert_awards
    sync_returned,      \* the value check_for_updates returned: "True", "False", or "none"
    table_before,       \* the awards table when check_for_updates was called
    metadata_before,    \* the scraper_metadata table when check_for_updates was called
    sync_fetch_failed,  \* a page request of fetch_recent_awards failed
    fpc,                \* where one fetch_batch call is: off, request, wait, returned, raised
    fetch_script,       \* what each attempt of the call meets
    fetch_page,         \* the records the source holds at the requested offset
    fetch_attempt,      \* attempt, the loop variable of fetch_batch
    requests_made,      \* the requests this call has sent
    retry_waits,        \* the RETRY_DELAY sleeps this call has taken
    fetch_result,       \* what the call returned
    gpc,                \* where one storage call is: off, call, done, closed
    gateway_op,         \* the DatabaseManager method called
    gateway_fault,      \* the statement it executes raises sqlite3.Error
    gateway_key,        \* the key argument of get_metadata and set_metadata
    gateway_awards,     \* the awards argument of insert_awards
    gateway_result,     \* what the method did: raised or not, and the value returned
    metadata_rows,      \* the rows of scraper_metadata, where the rows themselves matter
    tables,             \* the tables the database file holds
    open_connections,   \* the sqlite3 connections that are open now
    peak_connections    \* the most connections that were open at one time

store_vars == <<awards_table, scraper_metadata, now>>

harvest_vars ==
    <<source, hpc, resume, offset, consecutive_empty_batches, total_downloaded,
      interrupted, batch, returned, runs, first_fetch, last_fetch, last_checkpoint, start_count,
      all_resumed, prior_aborted, gap_served, exit_path, served, delayed>>

records_vars == <<ppc, input_awards, validated, inserted>>

sync_vars ==
    <<spc, force, gate_open, existing_contracts, sync_offset, all_recent_awards, fetched,
      new_records_found, upserted, sync_returned, table_before, metadata_before,
      sync_fetch_failed>>

fetch_vars ==
    <<fpc, fetch_script, fetch_page, fetch_attempt, requests_made, retry_waits, fetch_result>>

gateway_vars ==
    <<gpc, gateway_op, gateway_fault, gateway_key, gateway_awards, gateway_result,
      metadata_rows, tables>>

\* The tables create_tables creates (lines 57-115).
TABLES == {"awards", "scraper_metadata"}

connection_vars == <<open_connections, peak_connections>>

vars ==
    <<store_vars, harvest_vars, records_vars, sync_vars, fetch_vars, gateway_vars,
      connection_vars>>

\* SBIRDatabase.connect and disconnect, and the `with SBIRDatabase() as db`
\* block built from them: __enter__ connects, __exit__ disconnects however
\* the block is left.
Connect(n) == n + 1

DisconnectNever(n) == n

Disconnect(n) == n - 1

Max(a, b) == IF a > b THEN a ELSE b

RECURSIVE AfterBlocks(_, _)
AfterBlocks(n, blocks) ==
    IF blocks = 0 THEN n ELSE AfterBlocks(Disconnect(Connect(n)), blocks - 1)

RECURSIVE PeakOfBlocks(_, _)
PeakOfBlocks(n, blocks) ==
    IF blocks = 0
    THEN n
    ELSE Max(Connect(n), PeakOfBlocks(Disconnect(Connect(n)), blocks - 1))

ConnectionsAt(n) == open_connections = n /\ peak_connections = n

\* The block of download_all_awards is left when the function returns.
LeavesBlock ==
    /\ open_connections' =
           IF hpc' = "returned" THEN Disconnect(open_connections) ELSE open_connections
    /\ UNCHANGED peak_connections

EmptyMetadata == [k \in METADATA_KEYS |-> Absent]

HarvestIdle ==
    /\ hpc = "idle"
    /\ resume = FALSE
    /\ offset = 0
    /\ consecutive_empty_batches = 0
    /\ total_downloaded = 0
    /\ interrupted = FALSE
    /\ batch = <<>>
    /\ returned = "none"
    /\ runs = 0
    /\ first_fetch = 0 - 1
    /\ last_fetch = 0 - 1
    /\ last_checkpoint = 0 - 1
    /\ start_count = 0
    /\ all_resumed = TRUE
    /\ prior_aborted = FALSE
    /\ gap_served = FALSE
    /\ exit_path = "none"
    /\ served = {}
    /\ delayed = FALSE

RecordsOff ==
    /\ ppc = "off"
    /\ input_awards = <<>>
    /\ validated = <<>>
    /\ inserted = 0

SyncAt(pc) ==
    /\ spc = pc
    /\ force = FALSE
    /\ gate_open = FALSE
    /\ existing_contracts = {}
    /\ sync_offset = 0
    /\ all_recent_awards = <<>>
    /\ fetched = <<>>
    /\ new_records_found = 0
    /\ upserted = <<>>
    /\ sync_returned = "none"
    /\ table_before = <<>>
    /\ metadata_before = EmptyMetadata
    /\ sync_fetch_failed = FALSE

Pending == [pending |-> TRUE]

FetchOff ==
    /\ fpc = "off"
    /\ fetch_script = <<>>
    /\ fetch_page = <<>>
    /\ fetch_attempt = 0
    /\ requests_made = 0
    /\ retry_waits = 0
    /\ fetch_result = Pending

GatewayOff ==
    /\ gpc = "off"
    /\ gateway_op = "none"
    /\ gateway_fault = FALSE
    /\ gateway_key = "none"
    /\ gateway_awards = <<>>
    /\ gateway_result = Pending
    /\ metadata_rows = <<>>
    /\ tables = TABLES

Init ==
    /\ awards_table = <<>>
    /\ scraper_metadata = EmptyMetadata
    /\ now = 0
    /\ source \in Sources
    /\ HarvestIdle
    /\ ConnectionsAt(0)
    /\ RecordsOff
    /\ SyncAt("off")
    /\ FetchOff
    /\ GatewayOff

\* ------------------------------------------------------------------------
\* Full harvest (initial_download.py, download_all_awards)
\* ------------------------------------------------------------------------

\* Lines 136-143: the offset the run starts at.
StartOffsetZero(rows, res) == 0

StartOffsetSkipsOne(rows, res) ==
    IF res /\ get_record_count(rows) > 0 THEN get_record_count(rows) + 1 ELSE 0

StartOffset(rows, res) ==
    IF res /\ get_record_count(rows) > 0 THEN get_record_count(rows) ELSE 0

\* A new process calls download_all_awards(resume) on a new downloader:
\* create_tables (nothing to create after the first run), the start offset.
\* The clock is read once per run: all that a run writes carries the time
\* the run started at.
StartRun(res) ==
    /\ hpc \in {"idle", "returned"}
    /\ runs' = runs + 1
    /\ now' = now + 1
    /\ resume' = res
    /\ start_count' = get_record_count(awards_table)
    /\ offset' = StartOffset(awards_table, res)
    /\ total_downloaded' = StartOffset(awards_table, res)
    /\ consecutive_empty_batches' = 0
    /\ interrupted' = FALSE
    /\ batch' = <<>>
    /\ returned' = "none"
    /\ first_fetch' = 0 - 1
    /\ last_fetch' = 0 - 1
    /\ last_checkpoint' = 0 - 1
    /\ all_resumed' = (all_resumed /\ (res \/ get_record_count(awards_table) = 0))
    /\ prior_aborted' = (returned = "False")
    /\ hpc' = "loop"
    /\ exit_path' = "none"
    /\ served' = {}
    /\ delayed' = FALSE
    /\ open_connections' = Connect(open_connections)
    /\ peak_connections' = Max(peak_connections, Connect(open_connections))
    /\ UNCHANGED <<awards_table, scraper_metadata, source, gap_served>>
    /\ UNCHANGED <<records_vars, sync_vars, fetch_vars, gateway_vars>>

\* signal_handler (lines 58-61): SIGINT or SIGTERM.  The handler tests
\* nothing.  __init__ installs it (lines 44-45) and it lasts as long as the
\* downloader's process: it can run inside any call of the run, and after
\* download_all_awards has returned.  update_checker.py runs in a process
\* of its own, which installs no handler.
SignalHandler ==
    /\ hpc # "idle"
    /\ spc = "off"
    /\ interrupted' = TRUE
    /\ UNCHANGED <<store_vars, source, hpc, resume, offset, consecutive_empty_batches,
                   total_downloaded, batch, returned, runs, first_fetch, last_fetch, last_checkpoint,
                   start_count, all_resumed, prior_aborted, gap_served, exit_path, served,
                   delayed>>
    /\ UNCHANGED <<records_vars, sync_vars, fetch_vars, gateway_vars, connection_vars>>

\* `while not self.interrupted` is false: the loop is left.
LeaveLoop ==
    /\ hpc = "loop"
    /\ interrupted
    /\ hpc' = "finish"
    /\ UNCHANGED <<store_vars, source, resume, offset, consecutive_empty_batches,
                   total_downloaded, interrupted, batch, returned, runs, first_fetch,
                   last_fetch, last_checkpoint, start_count, all_resumed,
                   prior_aborted, gap_served, exit_path, served, delayed>>
    /\ UNCHANGED <<records_vars, sync_vars, fetch_vars, gateway_vars, connection_vars>>

\* Lines 153-155 and 212-214: where the run goes after fetch_batch: None
\* makes it return, and so does an exception, which the outer handler
\* catches; a page is processed.
PcAfterFetchRetries(awards) ==
    IF IsNone(awards) THEN "loop" ELSE IF IsRaised(awards) THEN "returned" ELSE "batch"

PcAfterFetch(awards) == IF IsNone(awards) \/ IsRaised(awards) THEN "returned" ELSE "batch"

\* The highest offset a run fetches at: two empty pages past the end of
\* the longest source (the third empty page in a row ends the run).
OffsetCap == MaxSource + 2 * BATCH_SIZE

\* Lines 149-152: the loop test passes and fetch_batch(offset, BATCH_SIZE)
\* is called.
CallFetchBatch ==
    /\ hpc = "loop"
    /\ ~interrupted
    /\ offset <= OffsetCap
    /\ hpc' = "fetch"
    /\ fetch_attempt' = 0
    /\ first_fetch' = IF first_fetch < 0 THEN offset ELSE first_fetch
    /\ last_fetch' = offset
    /\ delayed' = FALSE
    /\ UNCHANGED <<store_vars, source, resume, offset, consecutive_empty_batches,
                   total_downloaded, interrupted, batch, returned, runs, last_checkpoint,
                   start_count, all_resumed, prior_aborted, gap_served, exit_path, served>>
    /\ UNCHANGED <<fpc, fetch_script, fetch_page, requests_made, retry_waits, fetch_result>>
    /\ UNCHANGED <<records_vars, sync_vars, gateway_vars, connection_vars>>

\* What one pass of the loop of fetch_batch can end in, over the responses.
AttemptOutcomes(page, attempt) ==
    {attempt_outcome(kind, page, attempt) : kind \in ResponseKinds}

\* Lines 71-105 and 153-155: one pass of the loop of fetch_batch inside the
\* call, the request and the wait that follows a failure; the pass goes on
\* to the next one, or the call returns: None makes the run return False,
\* and so does an exception (lines 212-214).  The call reads no flag: the
\* signal handler can run between two passes and the call goes on.
FetchPass ==
    /\ hpc = "fetch"
    /\ \E outcome \in AttemptOutcomes(SourcePage(source, offset, BATCH_SIZE), fetch_attempt) :
         LET page == SourcePage(source, offset, BATCH_SIZE)
         IN  IF outcome = Retry
             THEN /\ fetch_attempt' = fetch_attempt + 1
                  /\ UNCHANGED <<hpc, batch, returned, exit_path, gap_served, served>>
             ELSE /\ fetch_attempt' = 0
                  /\ hpc' = PcAfterFetch(outcome)
                  /\ IF IsNone(outcome) \/ IsRaised(outcome)
                     THEN /\ returned' = "False"
                          /\ exit_path' = IF IsNone(outcome) THEN "fetch" ELSE "fatal"
                          /\ UNCHANGED <<batch, gap_served, served>>
                     ELSE /\ batch' = outcome.awards
                          /\ gap_served' =
                                 (gap_served \/ (Len(outcome.awards) = 0 /\ Len(page) > 0))
                          /\ served' = served \cup {[pos |-> offset + j, at |-> offset]
                                                     : j \in 1..Len(outcome.awards)}
                          /\ UNCHANGED <<returned, exit_path>>
    /\ UNCHANGED <<store_vars, source, resume, offset,
                   consecutive_empty_batches, total_downloaded, interrupted, runs,
                   first_fetch, last_fetch, delayed,
                   last_checkpoint, start_count, all_resumed, prior_aborted>>
    /\ LeavesBlock
    /\ UNCHANGED <<fpc, fetch_script, fetch_page, requests_made, retry_waits, fetch_result>>
    /\ UNCHANGED <<records_vars, sync_vars, gateway_vars>>

\* Lines 187-189: the checkpoint test on the advanced offset.
CheckpointDue(new_offset) == new_offset % (CHECKPOINT_INTERVAL * BATCH_SIZE) = 0

CheckpointedAhead(meta, new_offset, t) ==
    set_metadata(set_metadata(meta, "last_download_offset",
                              StrV(IntToChars(new_offset + BATCH_SIZE))),
                 "last_download_time", IsoFormat(t))

Checkpointed(meta, new_offset, t) ==
    set_metadata(set_metadata(meta, "last_download_offset", StrV(IntToChars(new_offset))),
                 "last_download_time", IsoFormat(t))

\* Lines 164, 173 and 180: the offset after a page.
OffsetAfterEmptyRestart(off) == 0
OffsetAfterEmptySame(off) == off
OffsetAfterEmpty(off) == off + BATCH_SIZE
OffsetAfterPageValid(off, awards) == off + Len(validate_batch(awards))
OffsetAfterPage(off, awards) == off + Len(awards)

\* Lines 159: the completion test on the streak.
StreakEndsNever(streak) == FALSE
StreakEndsAtTwo(streak) == streak >= 2
StreakEnds(streak) == streak >= 3

\* Lines 157-158 and 166-167: the streak after the page `awards`.
StreakAfterPageValid(streak, awards) ==
    IF Len(awards) = 0 THEN streak + 1
    ELSE IF Len(validate_batch(awards)) = 0 THEN streak ELSE 0

StreakAfterPage(streak, awards) == IF Len(awards) = 0 THEN streak + 1 ELSE 0

\* Line 193: time.sleep(API_DELAY) ends the try block of the insert; the
\* iterations that `continue` (lines 165 and 174) do not reach it.
SleptAfterPage(rows, awards, t) ==
    /\ Len(awards) > 0
    /\ Len(validate_batch(awards)) > 0
    /\ ~insert_awards(rows, validate_batch(awards), t).raised

\* Lines 157-197: the rest of one iteration, on the page in `batch`.
ProcessBatch ==
    /\ hpc = "batch"
    /\ delayed' = SleptAfterPage(awards_table, batch, now)
    /\ consecutive_empty_batches' = StreakAfterPage(consecutive_empty_batches, batch)
    /\ IF Len(batch) = 0
       THEN /\ IF StreakEnds(StreakAfterPage(consecutive_empty_batches, batch))
               THEN /\ hpc' = "finish"
                    /\ UNCHANGED offset
               ELSE /\ hpc' = "loop"
                    /\ offset' = OffsetAfterEmpty(offset)
            /\ UNCHANGED <<awards_table, scraper_metadata, total_downloaded, returned,
                           last_checkpoint, exit_path>>
       ELSE LET valid_awards == validate_batch(batch)
               IN  IF Len(valid_awards) = 0
                   THEN /\ offset' = OffsetAfterPage(offset, batch)
                        /\ hpc' = "loop"
                        /\ UNCHANGED <<awards_table, scraper_metadata, total_downloaded,
                                       returned, last_checkpoint, exit_path>>
                   ELSE LET ins == insert_awards(awards_table, valid_awards, now)
                            new_offset == OffsetAfterPage(offset, batch)
                        IN  IF ins.raised
                            THEN /\ hpc' = "returned"
                                 /\ returned' = "False"
                                 /\ exit_path' = "storage"
                                 /\ UNCHANGED <<awards_table, scraper_metadata,
                                                total_downloaded, offset, last_checkpoint>>
                            ELSE /\ awards_table' = ins.rows
                                 /\ total_downloaded' = total_downloaded + ins.inserted_count
                                 /\ offset' = new_offset
                                 /\ IF CheckpointDue(new_offset)
                                    THEN /\ scraper_metadata' =
                                              Checkpointed(scraper_metadata, new_offset, now)
                                         /\ last_checkpoint' = new_offset
                                    ELSE UNCHANGED <<scraper_metadata, last_checkpoint>>
                                 /\ hpc' = "loop"
                                 /\ UNCHANGED <<returned, exit_path>>
    /\ batch' = <<>>
    /\ UNCHANGED <<now, source, resume, interrupted, runs, first_fetch, last_fetch,
                   start_count, all_resumed, prior_aborted, gap_served, served>>
    /\ LeavesBlock
    /\ UNCHANGED <<records_vars, sync_vars, fetch_vars, gateway_vars>>

\* Lines 199-210: the final metadata and the return value.
FinalMetadata(meta, total, stopped, t) ==
    set_metadata(
        set_metadata(
            set_metadata(meta, "initial_download_completed", IsoFormat(t)),
            "total_records_downloaded", StrV(IntToChars(total))),
        "download_interrupted", IF stopped THEN TrueText ELSE FalseText)

\* The flag is read once, at line 203: a signal after that test is the
\* SignalHandler step that follows this one.
Finish ==
    /\ hpc = "finish"
    /\ scraper_metadata' = FinalMetadata(scraper_metadata, total_downloaded, interrupted, now)
    /\ returned' = IF interrupted THEN "False" ELSE "True"
    /\ hpc' = "returned"
    /\ exit_path' = IF interrupted THEN "cancelled" ELSE "completed"
    /\ UNCHANGED <<awards_table, now, source, resume, offset, consecutive_empty_batches,
                   total_downloaded, interrupted, batch, runs, first_fetch, last_fetch, last_checkpoint,
                   start_count, all_resumed, prior_aborted, gap_served, served, delayed>>
    /\ LeavesBlock
    /\ UNCHANGED <<records_vars, sync_vars, fetch_vars, gateway_vars>>

\* The first run on a new store, and a later run (a new process) on the
\* store the earlier runs left.
FirstDownload(res) == runs = 0 /\ StartRun(res)
LaterDownload(res) == runs > 0 /\ runs < MaxRuns /\ StartRun(res)

RunSteps ==
    \/ SignalHandler
    \/ LeaveLoop
    \/ CallFetchBatch
    \/ FetchPass
    \/ ProcessBatch
    \/ Finish

\* One harvest run on an empty store.
Next ==
    \/ \E res \in BOOLEAN : FirstDownload(res)
    \/ RunSteps

Spec == Init /\ [][Next]_vars

\* The steps the run takes by itself, the signal coming from outside: the
\* loop test, the call and the passes of fetch_batch, the final metadata; and
\* the processing of the page
\* in hand, which is the one step of a run that leaves "batch" and can
\* always be taken there.
ControlSteps ==
    \/ LeaveLoop
    \/ CallFetchBatch
    \/ FetchPass
    \/ Finish

BatchProcessed == hpc = "batch" /\ hpc' \in {"loop", "finish", "returned"}

MaxLiveSource == 3

InitLive ==
    /\ awards_table = <<>>
    /\ scraper_metadata = EmptyMetadata
    /\ now = 0
    /\ source \in SourcesOver(SourceKinds, MaxLiveSource)
    /\ HarvestIdle
    /\ ConnectionsAt(0)
    /\ RecordsOff
    /\ SyncAt("off")
    /\ FetchOff
    /\ GatewayOff

\* One harvest run that is not held up: whenever it can take a step it
\* takes one, since fetch_batch, insert_awards and set_metadata return.
SpecLive ==
    InitLive /\ [][Next]_vars /\ WF_vars(ControlSteps) /\ WF_hpc(BatchProcessed)

\* Several harvest runs, one after the other, on the same store.
InitResume ==
    /\ awards_table = <<>>
    /\ scraper_metadata = EmptyMetadata
    /\ now = 0
    /\ source \in ResumeSources
    /\ HarvestIdle
    /\ ConnectionsAt(0)
    /\ RecordsOff
    /\ SyncAt("off")
    /\ FetchOff
    /\ GatewayOff

NextResume ==
    \/ \E res \in BOOLEAN : FirstDownload(res)
    \/ \E res \in BOOLEAN : LaterDownload(res)
    \/ RunSteps

SpecResume == InitResume /\ [][NextResume]_vars

\* ------------------------------------------------------------------------
\* One batch through the validator and the storage gateway
\* (initial_download.py lines 170 and 178)
\* ------------------------------------------------------------------------

MaxBatch == 2
MaxText == 3

\* The characters of a drawn text: digits, the thousands separator, the
\* decimal point, a sign, and a character no number contains.
TextChars == {"0", "1", ",", ".", "-", "x"}

Texts == UNION {[1..n -> TextChars] : n \in 0..MaxText}

\* The values a field of a payload is drawn from: null, an int (zero or
\* not), a float, and every text.
FieldValues ==
    {Null, IntV(0), IntV(12), RealV(15, 1)} \cup {StrV(cs) : cs \in Texts}

\* The records the validator is tried on, for the position i of the batch:
\* the complete record; the record without one of the required fields, or
\* without the optional column branch; the record with a firm or an
\* award_title that is empty or null.
ValidatorEdits ==
    {[drop |-> f] : f \in {REQUIRED_FIELDS[k] : k \in 1..Len(REQUIRED_FIELDS)} \cup {"branch"}}
    \cup {[set |-> f, to |-> v] : f \in {"firm", "award_title"}, v \in {Null, StrV(<<>>)}}
    \cup {[keep |-> TRUE]}

ValidatorAward(edit, i) ==
    IF "drop" \in DOMAIN edit THEN Without(FullAward(i), edit.drop)
    ELSE IF "set" \in DOMAIN edit THEN With(FullAward(i), edit.set, edit.to)
    ELSE FullAward(i)

ValidatorBatches ==
    UNION {{[i \in 1..n |-> ValidatorAward(edits[i], i)] : edits \in [1..n -> ValidatorEdits]}
           : n \in 0..MaxBatch}

\* The one-record batches the coercions are tried on: the complete record
\* with its award_amount, one of its integer fields, or the text column
\* zip, drawn freely.
CoercionBatches ==
    {<<With(FullAward(1), f, v)>> :
        f \in {"award_amount", "zip"} \cup {INT_FIELDS[k] : k \in 1..Len(INT_FIELDS)},
        v \in FieldValues}

InitRecords ==
    /\ awards_table = <<>>
    /\ scraper_metadata = EmptyMetadata
    /\ now = 0
    /\ source = <<>>
    /\ HarvestIdle
    /\ ConnectionsAt(1)
    /\ SyncAt("off")
    /\ FetchOff
    /\ GatewayOff
    /\ ppc = "input"
    /\ input_awards \in ValidatorBatches \cup CoercionBatches
    /\ validated = <<>>
    /\ inserted = 0

\* valid_awards = self.validate_batch(awards)
ValidateBatch ==
    /\ ppc = "input"
    /\ validated' = validate_batch(input_awards)
    /\ ppc' = "validated"
    /\ UNCHANGED <<store_vars, harvest_vars, sync_vars, fetch_vars, gateway_vars, connection_vars,
                   input_awards, inserted>>

\* inserted = db.insert_awards(valid_awards)
InsertValidated ==
    /\ ppc = "validated"
    /\ LET ins == insert_awards(awards_table, validated, now)
       IN  IF ins.raised
           THEN /\ ppc' = "raised"
                /\ UNCHANGED <<awards_table, inserted>>
           ELSE /\ ppc' = "stored"
                /\ awards_table' = ins.rows
                /\ inserted' = ins.inserted_count
    /\ UNCHANGED <<scraper_metadata, now, harvest_vars, sync_vars, fetch_vars, gateway_vars,
                   connection_vars,
                   input_awards, validated>>

NextRecords ==
    \/ ValidateBatch
    \/ InsertValidated

SpecRecords == InitRecords /\ [][NextRecords]_vars

\* ------------------------------------------------------------------------
\* Incremental sync (update_checker.py, check_for_updates)
\* ------------------------------------------------------------------------

\* datetime.fromisoformat on a stored value: the time an isoformat text
\* denotes; any other text raises, which get_last_update_date turns to None.
IsIso(v) == DOMAIN v = {"iso"}

\* An unreadable text taken for the time of the sync.
get_last_update_date_raw(meta) ==
    LET last_update_str == get_metadata(meta, "last_update_check")
    IN  IF IsIso(last_update_str) THEN [time |-> last_update_str.iso]
        ELSE IF IsNull(last_update_str) THEN None
        ELSE [time |-> SyncDay * TicksPerDay]

get_last_update_date(meta) ==
    LET last_update_str == get_metadata(meta, "last_update_check")
    IN  IF IsIso(last_update_str) THEN [time |-> last_update_str.iso] ELSE None

\* timedelta.days of t - last: whole days, rounded down.
DaysBetween(t, last) == (t - last) \div TicksPerDay

\* What the reads of one update check see: when the SELECT raises
\* sqlite3.Error, get_metadata returns None (database.py:263-265) and
\* get_existing_contracts keeps its empty set (lines 79, 90-91).
MetadataAsRead(meta, fault) == IF fault THEN [k \in METADATA_KEYS |-> Absent] ELSE meta

should_check_for_updates_late(meta, t) ==
    LET last_update == get_last_update_date(meta)
    IN  IF IsNone(last_update) THEN TRUE
        ELSE DaysBetween(t, last_update.time) > UPDATE_CHECK_DAYS

should_check_for_updates(meta, t) ==
    LET last_update == get_last_update_date(meta)
    IN  IF IsNone(last_update) THEN TRUE
        ELSE DaysBetween(t, last_update.time) >= UPDATE_CHECK_DAYS

\* SELECT DISTINCT contract FROM awards WHERE contract IS NOT NULL
get_existing_contracts(rows) ==
    {rows[i].col["contract"] : i \in {j \in 1..Len(rows) : ~IsNull(rows[j].col["contract"])}}

ContractsAsRead(rows, fault) == IF fault THEN {} ELSE get_existing_contracts(rows)

\* (datetime.now() - timedelta(days=days_back)).strftime("%Y-%m-%d")
threshold_str(t, days_back) == DateText((t \div TicksPerDay) - days_back)

\* Python's order on str, on the characters of a date.
CharCode(c) == IF c = "-" THEN 45 ELSE 48 + DigitVal(c)

RECURSIVE StrLess(_, _)
StrLess(a, b) ==
    IF Len(b) = 0 THEN FALSE
    ELSE IF Len(a) = 0 THEN TRUE
    ELSE IF a[1] = b[1] THEN StrLess(Tail(a), Tail(b))
    ELSE CharCode(a[1]) < CharCode(b[1])

\* award.get('proposal_award_date', '')
AwardDate(award) ==
    IF "proposal_award_date" \in DOMAIN award THEN award["proposal_award_date"] ELSE StrV(<<>>)

\* Lines 137-138: award_date and award_date >= threshold_str
IsRecent(award, threshold) ==
    Truthy(AwardDate(award)) /\ ~StrLess(AwardDate(award).str, threshold.str)

\* Line 146: max([...]) over the dated awards of the page (the page has one).
LatestInBatch(awards) ==
    LET dated == {AwardDate(awards[i]) : i \in {j \in 1..Len(awards) : Truthy(AwardDate(awards[j]))}}
    IN  CHOOSE d \in dated : \A e \in dated : ~StrLess(d.str, e.str)

\* Lines 144-149: with no recent award in the page, the search stops when
\* max() raises on a page without dates, or when the latest date is older
\* than the threshold.
StopsOnOldPage(awards, threshold) ==
    LET dated == SelectSeq(awards, LAMBDA a : Truthy(AwardDate(a)))
    IN  IF Len(dated) = 0 THEN TRUE
        ELSE StrLess(LatestInBatch(awards).str, threshold.str)

\* Lines 107-125 and 160-166: the one request of a pass of the loop, on the
\* response `kind`: the awards of the body, or None where the loop is left
\* on a failure (a failed request, a body that is not JSON whatever the
\* parser raises on it, a body that is neither a list nor a dict).
recent_fetch_outcome(kind, page) ==
    CASE kind \in {"array", "docs"} -> [awards |-> page]
      [] kind = "object" -> [awards |-> <<>>]
      [] kind \in {"transport", "scalar"} \cup BadJsonKinds -> None

\* One pass of the loop of fetch_recent_awards on the response `kind` to
\* the page request at `off`: the recent awards so far, the next offset,
\* whether the loop goes on, and whether the request failed.  Lines 160-166: a failed request, and a
\* body that is not JSON whatever the parser raises on it, end the loop.
fetch_recent_pass(kind, page, recent_so_far, off, threshold) ==
    LET stop == [recent |-> recent_so_far, offset |-> off, more |-> FALSE, awards |-> <<>>,
                 failed |-> FALSE]
    IN  IF IsNone(recent_fetch_outcome(kind, page))
        THEN [stop EXCEPT !.failed = TRUE]
        ELSE LET awards == recent_fetch_outcome(kind, page).awards
                 recent_awards == SelectSeq(awards, LAMBDA a : IsRecent(a, threshold))
             IN  IF Len(awards) = 0 THEN stop
                 ELSE IF Len(recent_awards) = 0 /\ StopsOnOldPage(awards, threshold)
                 THEN [recent |-> recent_so_far, offset |-> off, more |-> FALSE,
                       awards |-> awards, failed |-> FALSE]
                 ELSE [recent |-> recent_so_far \o recent_awards,
                       offset |-> off + Len(awards),
                       more |-> ~(off + Len(awards) >= SAFETY_LIMIT),
                       awards |-> awards, failed |-> FALSE]

\* if contract and contract not in existing_contracts
IsNewAward(award, contracts) ==
    Truthy(Get(award, "contract")) /\ Get(award, "contract") \notin contracts

identify_new_awards(recent_awards, contracts) ==
    SelectSeq(recent_awards, LAMBDA award : IsNewAward(award, contracts))

update_metadata(meta, found, t) ==
    set_metadata(set_metadata(meta, "last_update_check", IsoFormat(t)),
                 "last_update_new_records", StrV(IntToChars(found)))

\* The `with SBIRDatabase()` blocks check_for_updates goes through, one
\* after the other: get_last_update_date (line 51) unless forced and
\* get_existing_contracts (line 82) before the fetch; after it the upsert
\* (line 213) when there are new awards, and update_metadata (line 234)
\* unless the upsert raised.
BlocksBeforeFetch(f, pc) == (IF f THEN 0 ELSE 1) + (IF pc = "fetching" THEN 1 ELSE 0)

BlocksAfterFetch(none_new, raised) == IF none_new THEN 1 ELSE IF raised THEN 1 ELSE 2

\* Lines 187-194: the schedule test, then the known contracts.
CheckForUpdates(f) ==
    /\ spc = "idle"
    /\ force' = f
    /\ table_before' = awards_table
    /\ metadata_before' = scraper_metadata
    /\ IF ~f /\ ~should_check_for_updates(MetadataAsRead(scraper_metadata, gateway_fault), now)
       THEN /\ spc' = "returned"
            /\ sync_returned' = "True"
            /\ UNCHANGED <<gate_open, existing_contracts>>
       ELSE /\ spc' = "fetching"
            /\ gate_open' = TRUE
            /\ existing_contracts' = ContractsAsRead(awards_table, gateway_fault)
            /\ UNCHANGED sync_returned
    /\ open_connections' = AfterBlocks(open_connections, BlocksBeforeFetch(f, spc'))
    /\ peak_connections' =
           Max(peak_connections, PeakOfBlocks(open_connections, BlocksBeforeFetch(f, spc')))
    /\ UNCHANGED <<store_vars, harvest_vars, records_vars, fetch_vars, gateway_vars,
                   sync_offset, all_recent_awards, fetched, new_records_found, upserted,
                   sync_fetch_failed>>

\* One pass of the loop of fetch_recent_awards.
FetchRecent ==
    /\ spc = "fetching"
    /\ \E pass \in {fetch_recent_pass(kind, SourcePage(source, sync_offset, BATCH_SIZE),
                                        all_recent_awards, sync_offset,
                                        threshold_str(now, UPDATE_LOOKBACK_DAYS))
                      : kind \in ResponseKinds} :
             /\ all_recent_awards' = pass.recent
             /\ sync_offset' = pass.offset
             /\ fetched' = fetched \o pass.awards
             /\ sync_fetch_failed' = pass.failed
             /\ spc' = IF pass.more THEN "fetching" ELSE "fetched"
    /\ UNCHANGED <<store_vars, harvest_vars, records_vars, fetch_vars, gateway_vars,
                   connection_vars, force,
                   gate_open,
                   existing_contracts, new_records_found, upserted, sync_returned,
                   table_before, metadata_before>>

\* Lines 199-229: the rest of check_for_updates on what was fetched.
FinishCheck ==
    /\ spc = "fetched"
    /\ spc' = "returned"
    /\ LET new_awards == identify_new_awards(all_recent_awards, existing_contracts)
           ins == insert_awards(awards_table, new_awards, now)
       IN  IF Len(all_recent_awards) = 0 \/ Len(new_awards) = 0
           THEN /\ scraper_metadata' = update_metadata(scraper_metadata, new_records_found, now)
                /\ sync_returned' = "True"
                /\ UNCHANGED <<awards_table, new_records_found, upserted>>
           ELSE IF ins.raised
           THEN /\ sync_returned' = "False"
                /\ UNCHANGED <<awards_table, scraper_metadata, new_records_found, upserted>>
           ELSE /\ awards_table' = ins.rows
                /\ new_records_found' = ins.inserted_count
                /\ upserted' = new_awards
                /\ scraper_metadata' = update_metadata(scraper_metadata, ins.inserted_count, now)
                /\ sync_returned' = "True"
    /\ LET new_awards == identify_new_awards(all_recent_awards, existing_contracts)
           blocks == BlocksAfterFetch(Len(all_recent_awards) = 0 \/ Len(new_awards) = 0,
                                      insert_awards(awards_table, new_awards, now).raised)
       IN  /\ open_connections' = AfterBlocks(open_connections, blocks)
           /\ peak_connections' = Max(peak_connections, PeakOfBlocks(open_connections, blocks))
    /\ UNCHANGED <<now, harvest_vars, records_vars, fetch_vars, gateway_vars, force, gate_open,
                   existing_contracts, sync_offset, all_recent_awards, fetched, table_before,
                   metadata_before, sync_fetch_failed>>

MaxSyncSource == 3
MaxKnown == 2

\* A record of the source of a sync, at position i: the complete record,
\* dated within the window; the same dated before it; the same from
\* another agency; the same with an empty firm; the same without a
\* contract number; the same without the key of the column branch.
SyncKinds == {"recent", "old", "otheragency", "emptyfirm", "nullcontract", "nocolumn"}

SyncAwardOfKind(kind, i) ==
    CASE kind = "recent" -> FullAward(i)
      [] kind = "old" -> With(FullAward(i), "proposal_award_date", DateText(OldDay))
      [] kind = "otheragency" -> With(FullAward(i), "agency", StrV(<<"D">>))
      [] kind = "emptyfirm" -> With(FullAward(i), "firm", StrV(<<>>))
      [] kind = "nullcontract" -> With(FullAward(i), "contract", Null)
      [] kind = "nocolumn" -> Without(FullAward(i), "branch")

SyncSources ==
    UNION {{[i \in 1..n |-> SyncAwardOfKind(kinds[i], i)] : kinds \in [1..n -> SyncKinds]}
           : n \in 0..MaxSyncSource}

\* The store a completed harvest of the complete records 1..k left.
HarvestedStore(k) == insert_awards(<<>>, [i \in 1..k |-> FullAward(i)], 0).rows

\* The checkpoints that harvest wrote on its way (lines 186-189), page after
\* page from the offset `off`, and the metadata it left at its end.
RECURSIVE HarvestCheckpoints(_, _, _)
HarvestCheckpoints(meta, off, k) ==
    IF off >= k THEN meta
    ELSE LET new_offset == Min(off + BATCH_SIZE, k)
         IN  HarvestCheckpoints(IF CheckpointDue(new_offset)
                                THEN Checkpointed(meta, new_offset, 0)
                                ELSE meta,
                                new_offset, k)

HarvestedMetadata(k) ==
    FinalMetadata(HarvestCheckpoints(EmptyMetadata, 0, k), k, FALSE, 0)

\* How long before the sync the last one ended, in ticks: the same tick,
\* two days, one tick less than UPDATE_CHECK_DAYS, and exactly that.
LastCheckAges ==
    {0, 2 * TicksPerDay, UPDATE_CHECK_DAYS * TicksPerDay - 1, UPDATE_CHECK_DAYS * TicksPerDay}

SyncTime == SyncDay * TicksPerDay

InitSync ==
    /\ \E k \in 0..MaxKnown :
         /\ awards_table = HarvestedStore(k)
         /\ \/ scraper_metadata = HarvestedMetadata(k)
            \/ \E age \in LastCheckAges :
                 scraper_metadata = update_metadata(HarvestedMetadata(k), 0, SyncTime - age)
    /\ now = SyncTime
    /\ source \in SyncSources
    /\ HarvestIdle
    /\ ConnectionsAt(0)
    /\ RecordsOff
    /\ SyncAt("idle")
    /\ FetchOff
    /\ GatewayOff

NextSync ==
    \/ \E f \in BOOLEAN : CheckForUpdates(f)
    \/ FetchRecent
    \/ FinishCheck

SpecSync == InitSync /\ [][NextSync]_vars

\* ------------------------------------------------------------------------
\* One call of fetch_batch, attempt by attempt (initial_download.py)
\* ------------------------------------------------------------------------

\* The pages a request can be answered with: up to BATCH_SIZE records.
FetchPages == {[i \in 1..n |-> FullAward(i)] : n \in 0..BATCH_SIZE}

\* Lines 63-70: fetch_batch(start_offset, batch_size) enters its loop.
InitFetch ==
    /\ awards_table = <<>>
    /\ scraper_metadata = EmptyMetadata
    /\ now = 0
    /\ source = <<>>
    /\ HarvestIdle
    /\ ConnectionsAt(0)
    /\ RecordsOff
    /\ SyncAt("off")
    /\ GatewayOff
    /\ fpc = "request"
    /\ fetch_script \in ResponseScripts
    /\ fetch_page \in FetchPages
    /\ fetch_attempt = 0
    /\ requests_made = 0
    /\ retry_waits = 0
    /\ fetch_result = Pending

\* Lines 70-105: one pass of `for attempt in range(MAX_RETRIES)`: the
\* request is sent, and the response or the exception is handled.
FetchAttempt ==
    /\ fpc = "request"
    /\ fetch_attempt < MAX_RETRIES
    /\ requests_made' = requests_made + 1
    /\ LET outcome == attempt_outcome(fetch_script[fetch_attempt + 1], fetch_page,
                                      fetch_attempt)
       IN  IF outcome = Retry
           THEN /\ fpc' = "wait"
                /\ UNCHANGED fetch_result
           ELSE /\ fpc' = IF IsRaised(outcome) THEN "raised" ELSE "returned"
                /\ fetch_result' = outcome
    /\ UNCHANGED <<fetch_script, fetch_page, fetch_attempt, retry_waits>>
    /\ UNCHANGED <<store_vars, harvest_vars, records_vars, sync_vars, gateway_vars,
                   connection_vars>>

\* Line 98: time.sleep(RETRY_DELAY), and the loop takes the next attempt.
RetryDelay ==
    /\ fpc = "wait"
    /\ retry_waits' = retry_waits + 1
    /\ fetch_attempt' = fetch_attempt + 1
    /\ fpc' = "request"
    /\ UNCHANGED <<fetch_script, fetch_page, requests_made, fetch_result>>
    /\ UNCHANGED <<store_vars, harvest_vars, records_vars, sync_vars, gateway_vars,
                   connection_vars>>

NextFetch ==
    \/ FetchAttempt
    \/ RetryDelay

SpecFetch == InitFetch /\ [][NextFetch]_vars

\* update_checker.py, lines 105-125 and 160-166: the page request of one
\* pass of fetch_recent_awards, on the same responses.  The request is sent
\* once, and a failure leaves the loop.
RecentFetchAttempt ==
    /\ fpc = "request"
    /\ requests_made' = requests_made + 1
    /\ fetch_result' = recent_fetch_outcome(fetch_script[fetch_attempt + 1], fetch_page)
    /\ fpc' = "returned"
    /\ UNCHANGED <<fetch_script, fetch_page, fetch_attempt, retry_waits>>
    /\ UNCHANGED <<store_vars, harvest_vars, records_vars, sync_vars, gateway_vars,
                   connection_vars>>

NextRecentFetch == RecentFetchAttempt

SpecRecentFetch == InitFetch /\ [][NextRecentFetch]_vars

\* ------------------------------------------------------------------------
\* One call of a DatabaseManager method, with or without a storage fault
\* (database.py)
\* ------------------------------------------------------------------------

\* Lines 228-241: MAX(proposal_award_date) over the rows that have one;
\* result[0] if result and result[0] else None.
get_latest_date(rows) ==
    LET dates == {rows[i].col["proposal_award_date"] : i \in 1..Len(rows)} \ {Null}
        latest == CHOOSE d \in dates : \A e \in dates : ~StrLess(d.str, e.str)
    IN  IF dates = {} THEN Null
        ELSE IF Truthy(latest) THEN latest ELSE Null

\* A stored record: dated within the window, before it, or not dated.
GatewayKinds == {"recent", "old", "undated"}

GatewayAward(kind, i) ==
    CASE kind = "recent" -> FullAward(i)
      [] kind = "old" -> With(FullAward(i), "proposal_award_date", DateText(OldDay))
      [] kind = "undated" -> With(FullAward(i), "proposal_award_date", Null)

GatewayStores ==
    UNION {{insert_awards(<<>>, [i \in 1..n |-> GatewayAward(kinds[i], i)], 0).rows
            : kinds \in [1..n -> GatewayKinds]} : n \in 0..MaxKnown}

GatewayOps ==
    {"insert_awards", "get_record_count", "get_latest_date", "get_metadata", "set_metadata"}

\* What a call did: whether it raised to its caller, and what it returned.
Returns(value) == [raised |-> FALSE, value |-> value]
Raises == [raised |-> TRUE, value |-> Null]

\* A caller holds an open connection and calls one method.  With
\* gateway_fault the statement the method executes raises sqlite3.Error.
InitGateway ==
    /\ awards_table \in GatewayStores
    /\ scraper_metadata \in {EmptyMetadata, HarvestedMetadata(1)}
    /\ now = 1
    /\ source = <<>>
    /\ HarvestIdle
    /\ ConnectionsAt(1)
    /\ RecordsOff
    /\ SyncAt("off")
    /\ FetchOff
    /\ gpc = "call"
    /\ gateway_op \in GatewayOps
    /\ gateway_fault \in BOOLEAN
    /\ gateway_key \in IF gateway_op \in {"get_metadata", "set_metadata"}
                        THEN METADATA_KEYS ELSE {"none"}
    /\ gateway_awards \in IF gateway_op = "insert_awards" THEN FetchPages ELSE {<<>>}
    /\ gateway_result = Pending
    /\ metadata_rows = <<>>
    /\ tables = TABLES

GatewayDone ==
    /\ gpc' = "done"
    /\ UNCHANGED <<now, gateway_op, gateway_fault, gateway_key, gateway_awards, metadata_rows,
                   tables>>
    /\ UNCHANGED <<harvest_vars, records_vars, sync_vars, fetch_vars, connection_vars>>

\* Lines 145-190: nothing is executed for an empty list; sqlite3.Error is
\* logged and raised again.
InsertAwardsCall ==
    /\ gpc = "call"
    /\ gateway_op = "insert_awards"
    /\ LET ins == insert_awards(awards_table, gateway_awards, now)
       IN  IF Len(gateway_awards) = 0
           THEN /\ gateway_result' = Returns(IntV(0))
                /\ UNCHANGED awards_table
           ELSE IF gateway_fault \/ ins.raised
           THEN /\ gateway_result' = Raises
                /\ UNCHANGED awards_table
           ELSE /\ gateway_result' = Returns(IntV(ins.inserted_count))
                /\ awards_table' = ins.rows
    /\ UNCHANGED scraper_metadata
    /\ GatewayDone

\* Lines 217-226: sqlite3.Error is logged and 0 returned.
GetRecordCountCall ==
    /\ gpc = "call"
    /\ gateway_op = "get_record_count"
    /\ gateway_result' = IF gateway_fault THEN Returns(IntV(0))
                         ELSE Returns(IntV(get_record_count(awards_table)))
    /\ UNCHANGED <<awards_table, scraper_metadata>>
    /\ GatewayDone

\* Lines 228-241: sqlite3.Error is logged and None returned.
GetLatestDateCall ==
    /\ gpc = "call"
    /\ gateway_op = "get_latest_date"
    /\ gateway_result' = IF gateway_fault THEN Returns(Null)
                         ELSE Returns(get_latest_date(awards_table))
    /\ UNCHANGED <<awards_table, scraper_metadata>>
    /\ GatewayDone

\* Lines 256-265: sqlite3.Error is logged and None returned.
GetMetadataCall ==
    /\ gpc = "call"
    /\ gateway_op = "get_metadata"
    /\ gateway_result' = IF gateway_fault THEN Returns(Null)
                         ELSE Returns(get_metadata(scraper_metadata, gateway_key))
    /\ UNCHANGED <<awards_table, scraper_metadata>>
    /\ GatewayDone

\* Lines 243-254: sqlite3.Error is logged and raised again; the method
\* returns nothing.
SetMetadataCall ==
    /\ gpc = "call"
    /\ gateway_op = "set_metadata"
    /\ IF gateway_fault
       THEN /\ gateway_result' = Raises
            /\ UNCHANGED scraper_metadata
       ELSE /\ gateway_result' = Returns(Null)
            /\ scraper_metadata' = set_metadata(scraper_metadata, gateway_key, IsoFormat(now))
    /\ UNCHANGED awards_table
    /\ GatewayDone

\* Lines 51-53 and 39-44: the caller's with block is left, by the return
\* of the method or by what it raised; __exit__ disconnects.
GatewayExit ==
    /\ gpc = "done"
    /\ gpc' = "closed"
    /\ open_connections' = Disconnect(open_connections)
    /\ UNCHANGED <<awards_table, scraper_metadata, now, peak_connections, gateway_op,
                   gateway_fault, gateway_key, gateway_awards, gateway_result,
                   metadata_rows, tables>>
    /\ UNCHANGED <<harvest_vars, records_vars, sync_vars, fetch_vars>>

NextGateway ==
    \/ InsertAwardsCall
    \/ GetRecordCountCall
    \/ GetLatestDateCall
    \/ GetMetadataCall
    \/ SetMetadataCall
    \/ GatewayExit

SpecGateway == InitGateway /\ [][NextGateway]_vars

\* ------------------------------------------------------------------------
\* The walk of fetch_recent_awards over dated and undated records
\* (update_checker.py)
\* ------------------------------------------------------------------------

MaxScanSource == 4

\* The sources of the walk: each record dated within the window, before
\* it, or without a date.
\* The records the API serves: dated or not, and the first record again.
ScanKinds == GatewayKinds \cup {"again"}

ScanAward(kind, i) == IF kind = "again" THEN FullAward(1) ELSE GatewayAward(kind, i)

ScanSources ==
    UNION {{[i \in 1..n |-> ScanAward(kinds[i], i)] : kinds \in [1..n -> ScanKinds]}
           : n \in 0..MaxScanSource}

\* check_for_updates(force=True) on a store that holds no record.
InitScan ==
    /\ awards_table = <<>>
    /\ scraper_metadata = EmptyMetadata
    /\ now = SyncTime
    /\ source \in ScanSources
    /\ HarvestIdle
    /\ ConnectionsAt(0)
    /\ RecordsOff
    /\ SyncAt("idle")
    /\ FetchOff
    /\ GatewayOff

NextScan ==
    \/ CheckForUpdates(TRUE)
    \/ FetchRecent
    \/ FinishCheck

SpecScan == InitScan /\ [][NextScan]_vars

\* ------------------------------------------------------------------------
\* A harvest run, then update checks on the store it left
\* (initial_download.py, then update_checker.py)
\* ------------------------------------------------------------------------

MaxLifeSource == 2
MaxLifeKnown == 1

\* How long after the last step the next update check starts, in ticks.
CheckDelays == {0, UPDATE_CHECK_DAYS * TicksPerDay}

\* A new SBIRUpdateChecker (lines 33-46) once download_all_awards has
\* returned: the first one at the time of the sync, and one more after the
\* check that recorded last_update_check for the first time.
NewChecker ==
    /\ hpc = "returned"
    /\ \/ /\ spc = "off"
          /\ now' = SyncTime
       \/ /\ spc = "returned"
          /\ IsAbsent(metadata_before["last_update_check"])
          /\ ~IsAbsent(scraper_metadata["last_update_check"])
          /\ \E d \in CheckDelays : now' = now + d
    /\ spc' = "idle"
    /\ force' = FALSE
    /\ gate_open' = FALSE
    /\ existing_contracts' = {}
    /\ sync_offset' = 0
    /\ all_recent_awards' = <<>>
    /\ fetched' = <<>>
    /\ new_records_found' = 0
    /\ upserted' = <<>>
    /\ sync_returned' = "none"
    /\ sync_fetch_failed' = FALSE
    /\ UNCHANGED <<awards_table, scraper_metadata, table_before, metadata_before>>
    /\ UNCHANGED <<harvest_vars, records_vars, fetch_vars, gateway_vars, connection_vars>>

\* The store is new, or an earlier completed harvest left it.
InitLife ==
    /\ \E k \in 0..MaxLifeKnown :
         /\ awards_table = HarvestedStore(k)
         /\ scraper_metadata = IF k = 0 THEN EmptyMetadata ELSE HarvestedMetadata(k)
    /\ now = 0
    /\ source \in SourcesOver(SourceKinds, MaxLifeSource)
    /\ HarvestIdle
    /\ ConnectionsAt(0)
    /\ RecordsOff
    /\ SyncAt("off")
    /\ FetchOff
    /\ GatewayOff

NextLife ==
    \/ Next
    \/ NewChecker
    \/ NextSync

SpecLife == InitLife /\ [][NextLife]_vars

\* ------------------------------------------------------------------------
\* The schedule test of an update check (update_checker.py)
\* ------------------------------------------------------------------------

MaxGateKnown == 1

\* How long before the sync last_update_check was written, in ticks: from
\* a day ahead of the clock to a day past UPDATE_CHECK_DAYS.
GateAges == (0 - TicksPerDay)..((UPDATE_CHECK_DAYS + 1) * TicksPerDay)

\* What the store holds under last_update_check: nothing, the empty text,
\* a text that is no timestamp, or a timestamp.
GateValues ==
    {Absent, StrV(<<>>), StrV(<<"x">>)} \cup {IsoFormat(SyncTime - age) : age \in GateAges}

\* check_for_updates is called on a harvested store whose metadata table
\* can be read, or cannot (gateway_fault).
InitGate ==
    /\ \E k \in 0..MaxGateKnown, value \in GateValues :
         /\ awards_table = HarvestedStore(k)
         /\ scraper_metadata = [HarvestedMetadata(k) EXCEPT !["last_update_check"] = value]
    /\ now = SyncTime
    /\ source = <<>>
    /\ HarvestIdle
    /\ ConnectionsAt(0)
    /\ RecordsOff
    /\ SyncAt("idle")
    /\ FetchOff
    /\ gpc = "off"
    /\ gateway_op = "none"
    /\ gateway_fault \in BOOLEAN
    /\ gateway_key = "none"
    /\ gateway_awards = <<>>
    /\ gateway_result = Pending
    /\ metadata_rows = <<>>
    /\ tables = TABLES

NextGate == \E f \in BOOLEAN : CheckForUpdates(f)

SpecGate == InitGate /\ [][NextGate]_vars

\* ------------------------------------------------------------------------
\* The database file, call by call (database.py)
\* ------------------------------------------------------------------------

MaxStoreCalls == 5

\* CREATE TABLE IF NOT EXISTS: a table that exists keeps its rows, one that
\* does not is created empty.
TableCreatedAnew(existing, name, rows) == <<>>

TableCreated(existing, name, rows) == IF name \in existing THEN rows ELSE <<>>

\* id INTEGER PRIMARY KEY AUTOINCREMENT: one more than the largest id.
RECURSIVE LargestId(_)
LargestId(rows) ==
    IF Len(rows) = 0 THEN 0
    ELSE LET rest == LargestId(Tail(rows))
         IN  IF Head(rows).id > rest THEN Head(rows).id ELSE rest

MetadataRow(rows, key, value, t) ==
    [id |-> LargestId(rows) + 1, key |-> key, value |-> value, updated_at |-> t]

\* A plain INSERT on a table without the UNIQUE constraint on key.
insert_metadata(rows, key, value, t) == Append(rows, MetadataRow(rows, key, value, t))

\* Lines 247-250, on the table of lines 108-115: INSERT OR REPLACE with
\* key TEXT UNIQUE deletes the row that holds the key and inserts a new one.
replace_metadata(rows, key, value, t) ==
    Append(SelectSeq(rows, LAMBDA row : row.key # key), MetadataRow(rows, key, value, t))

\* Lines 259-261: SELECT value ... WHERE key = ?, fetchone, result[0] or None.
select_metadata(rows, key) ==
    LET result == SelectSeq(rows, LAMBDA row : row.key = key)
    IN  IF Len(result) = 0 THEN Null ELSE result[1].value

StoreKeys == {"last_update_check", "last_update_new_records"}
StoreValues == {StrV(<<"0">>), StrV(<<"1">>)}
StoreAwards == {<<FullAward(1)>>, <<FullAward(1), FullAward(2)>>, <<FullAward(2)>>}

\* A new database file and a caller that holds an open connection to it:
\* sqlite3.connect creates the file without any table.
InitStore ==
    /\ awards_table = <<>>
    /\ scraper_metadata = EmptyMetadata
    /\ now = 0
    /\ source = <<>>
    /\ HarvestIdle
    /\ ConnectionsAt(1)
    /\ RecordsOff
    /\ SyncAt("off")
    /\ FetchOff
    /\ gpc = "call"
    /\ gateway_op = "none"
    /\ gateway_fault = FALSE
    /\ gateway_key = "none"
    /\ gateway_awards = <<>>
    /\ gateway_result = Pending
    /\ metadata_rows = <<>>
    /\ tables = {}

\* One method was called and has ended; time went by.
StoreCalled(op, key, awards) ==
    /\ now < MaxStoreCalls
    /\ now' = now + 1
    /\ gateway_op' = op
    /\ gateway_key' = key
    /\ gateway_awards' = awards
    /\ UNCHANGED <<gpc, gateway_fault>>
    /\ UNCHANGED <<harvest_vars, records_vars, sync_vars, fetch_vars, connection_vars>>

\* Lines 55-143: create_tables.
StoreCreateTables ==
    /\ tables' = TABLES
    /\ awards_table' = TableCreated(tables, "awards", awards_table)
    /\ metadata_rows' = TableCreated(tables, "scraper_metadata", metadata_rows)
    /\ gateway_result' = Returns(Null)
    /\ UNCHANGED scraper_metadata
    /\ StoreCalled("create_tables", "none", <<>>)

\* Lines 243-254: set_metadata; without the table the statement raises
\* sqlite3.OperationalError, which is logged and raised again.
StoreSetMetadata ==
    \E key \in StoreKeys, value \in StoreValues :
        /\ IF "scraper_metadata" \in tables
           THEN /\ metadata_rows' = replace_metadata(metadata_rows, key, value, now)
                /\ scraper_metadata' = set_metadata(scraper_metadata, key, value)
                /\ gateway_result' = Returns(Null)
           ELSE /\ gateway_result' = Raises
                /\ UNCHANGED <<metadata_rows, scraper_metadata>>
        /\ UNCHANGED <<awards_table, tables>>
        /\ StoreCalled("set_metadata", key, <<>>)

\* Lines 256-265: get_metadata; without the table the error is logged and
\* None returned.
StoreGetMetadata ==
    \E key \in StoreKeys :
        /\ gateway_result' =
               IF "scraper_metadata" \in tables
               THEN Returns(select_metadata(metadata_rows, key))
               ELSE Returns(Null)
        /\ UNCHANGED <<awards_table, scraper_metadata, metadata_rows, tables>>
        /\ StoreCalled("get_metadata", key, <<>>)

\* Lines 145-190: insert_awards.
StoreInsertAwards ==
    \E awards \in StoreAwards :
        /\ LET ins == insert_awards(awards_table, awards, now)
           IN  IF "awards" \in tables /\ ~ins.raised
               THEN /\ awards_table' = ins.rows
                    /\ gateway_result' = Returns(IntV(ins.inserted_count))
               ELSE /\ gateway_result' = Raises
                    /\ UNCHANGED awards_table
        /\ UNCHANGED <<scraper_metadata, metadata_rows, tables>>
        /\ StoreCalled("insert_awards", "none", awards)

NextStore ==
    \/ StoreCreateTables
    \/ StoreSetMetadata
    \/ StoreGetMetadata
    \/ StoreInsertAwards

SpecStore == InitStore /\ [][NextStore]_vars

\* ------------------------------------------------------------------------
\* Properties
\* ------------------------------------------------------------------------

\* The identity triple of a stored row.
Identity(row) == [i \in 1..Len(UNIQUE_COLUMNS) |-> row.col[UNIQUE_COLUMNS[i]]]

\* The raw payloads in the store, and whether an award's payload is there.
StoredPayloads == {awards_table[i].col["raw_data"] : i \in 1..Len(awards_table)}
Stored(award) == JsonDumps(award) \in StoredPayloads

ValidSourcePayloads ==
    {JsonDumps(source[i]) : i \in {j \in 1..Len(source) : KeepsAward(source[j])}}

\* C1: no two stored rows share the same (contract, agency,
\* agency_tracking_number) triple, null components included, after any
\* sequence of insert_awards calls issued by the harvest.
C1_NoTwoRowsShareIdentity ==
    \A i, j \in 1..Len(awards_table) :
        i # j => Identity(awards_table[i]) # Identity(awards_table[j])

\* C3, as claimed: a run that ended on its third consecutive empty page
\* ended as completed: it returned True and set download_interrupted to
\* "false".
C3_ThreeEmptyPagesComplete ==
    (hpc = "returned" /\ consecutive_empty_batches >= 3)
        => (returned = "True" /\ scraper_metadata["download_interrupted"] = FalseText)

\* A run that ended on its third consecutive empty page returned True with
\* download_interrupted "false", or, cancellation having been requested
\* before the final test, False with "true".
C3_EndOfStreak ==
    (hpc = "returned" /\ consecutive_empty_batches >= 3)
        => \/ /\ exit_path = "completed"
              /\ returned = "True"
              /\ scraper_metadata["download_interrupted"] = FalseText
           \/ /\ exit_path = "cancelled"
              /\ interrupted
              /\ returned = "False"
              /\ scraper_metadata["download_interrupted"] = TrueText

\* The final test (line 203) decides by the flag as it is then.
C3_FinalTest ==
    (hpc = "finish" /\ hpc' = "returned")
        => exit_path' = (IF interrupted THEN "cancelled" ELSE "completed")

\* The loop is left by that third page or by cancellation only.
C3_LoopLeft == hpc = "finish" => (interrupted \/ consecutive_empty_batches = 3)

\* The page after two empty ones: empty, it ends the loop; not empty, it
\* resets the streak and the run goes on (or returns False, the insert
\* having raised).
C3_AfterTwoEmpty ==
    (hpc = "batch" /\ hpc' # "batch" /\ consecutive_empty_batches = 2)
        => IF Len(batch) = 0
           THEN hpc' = "finish" /\ consecutive_empty_batches' = 3
           ELSE /\ consecutive_empty_batches' = 0
                /\ \/ hpc' = "loop"
                   \/ hpc' = "returned" /\ returned' = "False"

\* An empty page that does not end the loop moves the offset up: the empty
\* pages of a streak are fetched at strictly increasing offsets.
C3_EmptyPageAdvances ==
    (hpc = "batch" /\ Len(batch) = 0 /\ hpc' = "loop") => offset' > offset

\* C3, amended: the third consecutive empty page ends the loop, and the run
\* then returns True with download_interrupted "false" unless cancellation
\* was requested before the final test, in which case it returns False with
\* "true"; the loop is left in no other way than by that third page or by
\* cancellation; a non-empty page after two empty ones resets the streak
\* and does not end the run as completed.
C3_EndOfDataDetection ==
    /\ [](C3_EndOfStreak /\ C3_LoopLeft)
    /\ [][C3_AfterTwoEmpty /\ C3_EmptyPageAdvances /\ C3_FinalTest]_vars

\* A completed run whose first two pages (offsets 0 and BATCH_SIZE) came
\* back empty although the source holds valid records there, and whose
\* third page was stored: two empty pages, a non-empty one, and later the
\* three empty pages that ended it.
C3_Witness ==
    /\ hpc = "returned"
    /\ returned = "True"
    /\ consecutive_empty_batches = 3
    /\ first_fetch = 0
    /\ Len(source) > 2 * BATCH_SIZE
    /\ \A i \in 1..(2 * BATCH_SIZE) : KeepsAward(source[i]) /\ ~Stored(source[i])
    /\ Stored(source[2 * BATCH_SIZE + 1])

\* C4: the first page a run fetches is at offset N when it was started with
\* resume and the store held N > 0 records, and at offset 0 otherwise.
C4_FirstFetchOffset ==
    first_fetch >= 0
        => first_fetch = (IF resume /\ start_count > 0 THEN start_count ELSE 0)

C4_Witness ==
    /\ resume
    /\ start_count > 0
    /\ first_fetch = start_count
    /\ hpc = "batch"

\* A resumed run ended as completed, after a run that was aborted or
\* interrupted; every run so far started on an empty store or resumed, and
\* the source answered every fetch with the records at its offset.
ResumedRunCompleted ==
    /\ hpc = "returned"
    /\ returned = "True"
    /\ resume
    /\ runs >= 2
    /\ prior_aborted
    /\ all_resumed
    /\ ~gap_served

\* C5, as claimed: a resumed run that ends as completed, after a run that
\* was aborted or interrupted, leaves as many stored records as the source
\* holds.
C5_ResumedCountIsSourceTotal ==
    ResumedRunCompleted => get_record_count(awards_table) = Len(source)

\* The records of the source that pass the validator, and the rows of the
\* store that repeat the payload of an earlier row.
C5_ValidInSource == Cardinality({j \in 1..Len(source) : KeepsAward(source[j])})

C5_RepeatedRows ==
    Cardinality({i \in 1..Len(awards_table) :
                    \E j \in 1..(i - 1) :
                        awards_table[j].col["raw_data"] = awards_table[i].col["raw_data"]})

\* C5, amended: such a run leaves stored exactly the source's records that
\* pass the validator (each at least once); the stored count is the number
\* of those records plus the number of rows that repeat a stored record,
\* it never exceeds the source's total, and it equals the total whenever
\* the validator drops no record of the source.
C5_ResumedStoreIsValidSource ==
    ResumedRunCompleted =>
        /\ StoredPayloads = ValidSourcePayloads
        /\ get_record_count(awards_table) = C5_ValidInSource + C5_RepeatedRows
        /\ get_record_count(awards_table) <= Len(source)
        /\ (C5_ValidInSource = Len(source)
              => get_record_count(awards_table) = Len(source))

C5_Witness ==
    /\ ResumedRunCompleted
    /\ start_count > 0
    /\ \E i \in 1..Len(source) : ~KeepsAward(source[i])
    /\ StoredPayloads = ValidSourcePayloads
    /\ get_record_count(awards_table) < Len(source)

\* A step of a run does not lower the latest value written to
\* last_download_offset.
C8_CheckpointStep ==
    (runs' = runs /\ last_checkpoint >= 0) => last_checkpoint' >= last_checkpoint

\* C8: within one run the values written to last_download_offset never
\* decrease.
C8_CheckpointMonotonic == [][C8_CheckpointStep]_vars

\* Two checkpoints were written in the run, the second one now in the store.
C8_Witness ==
    /\ last_checkpoint = 2 * CHECKPOINT_INTERVAL * BATCH_SIZE
    /\ scraper_metadata["last_download_offset"] = StrV(IntToChars(last_checkpoint))
    /\ \A i \in 1..last_checkpoint : Stored(source[i])

\* What the validator's contract asks of a record: every required field
\* is present, and firm and award_title are non-empty.
HasNonEmpty(award, key) ==
    key \in DOMAIN award /\ ~IsNull(award[key]) /\ award[key] # StrV(<<>>)

MeetsContract(award) ==
    /\ \A k \in 1..Len(REQUIRED_FIELDS) : REQUIRED_FIELDS[k] \in DOMAIN award
    /\ HasNonEmpty(award, "firm")
    /\ HasNonEmpty(award, "award_title")

\* C9: validate_batch returns exactly the input records that carry every
\* required field and have a non-empty firm and award_title, in input
\* order and with their content unchanged; no single record makes it fail.
C9_ValidatorKeepsExactlyValid ==
    ppc \in {"validated", "stored", "raised"}
        => validated = SelectSeq(input_awards, MeetsContract)

\* A batch of two: the first dropped for its empty award_title, the second
\* kept as it came.
C9_Witness ==
    /\ ppc = "validated"
    /\ Len(input_awards) = 2
    /\ input_awards[1] = ValidatorAward([set |-> "award_title", to |-> StrV(<<>>)], 1)
    /\ validated = <<input_awards[2]>>

\* Whether a value parses as a number once its thousands separators are
\* stripped, and whether it parses as an integer.
ParsesAsNumber(v) ==
    IsInt(v) \/ IsReal(v) \/ (IsStr(v) /\ ~IsFailure(FloatOfChars(StripCommas(v.str))))

ParsesAsInteger(v) == ~IsFailure(IntOf(v))

RowsOf(award) ==
    {i \in 1..Len(awards_table) : awards_table[i].col["raw_data"] = JsonDumps(award)}

\* C10: a validated record is stored whatever its award_amount and integer
\* fields hold; an award_amount that does not parse as a number after
\* stripping thousands separators is stored as null, and so is each integer
\* field that does not parse as an integer.
C10_UnparsedStoredAsNull ==
    ppc = "stored"
        => \A k \in 1..Len(validated) :
              LET award == validated[k]
              IN  /\ RowsOf(award) # {}
                  /\ \A i \in RowsOf(award) :
                        /\ ~ParsesAsNumber(award["award_amount"])
                              => IsNull(awards_table[i].col["award_amount"])
                        /\ \A f \in 1..Len(INT_FIELDS) :
                              ~ParsesAsInteger(award[INT_FIELDS[f]])
                                 => IsNull(awards_table[i].col[INT_FIELDS[f]])

\* The same for the integer fields alone.
C10_UnparsedIntsStoredAsNull ==
    ppc = "stored"
        => \A k \in 1..Len(validated) :
              \A i \in RowsOf(validated[k]) :
                 \A f \in 1..Len(INT_FIELDS) :
                    ~ParsesAsInteger(validated[k][INT_FIELDS[f]])
                       => IsNull(awards_table[i].col[INT_FIELDS[f]])

\* C2: every stored record passed the validator (all required fields
\* present, firm and award_title non-empty), whichever controller
\* persisted it.
C2_StoredRecordsPassedValidator ==
    \A i \in 1..Len(awards_table) : MeetsContract(awards_table[i].col["raw_data"].json)

\* The identity triple of a payload, and whether the store held it when
\* the sync was called.
AwardIdentity(award) == [i \in 1..Len(UNIQUE_COLUMNS) |-> Get(award, UNIQUE_COLUMNS[i])]

IdentityKnownBefore(award) ==
    \E i \in 1..Len(table_before) : Identity(table_before[i]) = AwardIdentity(award)

InWindow(award) ==
    /\ IsStr(Get(award, "proposal_award_date"))
    /\ ~StrLess(award["proposal_award_date"].str, threshold_str(now, UPDATE_LOOKBACK_DAYS).str)

FetchedInWindowUnknown ==
    SelectSeq(fetched, LAMBDA award : InWindow(award) /\ ~IdentityKnownBefore(award))

\* C6: a sync that went through upserted exactly the fetched in-window
\* records whose identity triple the store did not hold, and
\* new_records_found is their number.
C6_UpsertsExactlyUnknownIdentities ==
    (spc = "returned" /\ gate_open /\ sync_returned = "True")
        => /\ upserted = FetchedInWindowUnknown
           /\ new_records_found = Len(FetchedInWindowUnknown)

\* Whether the last sync ended less than UPDATE_CHECK_DAYS before this one
\* was called.
LastCheckYoung ==
    /\ IsIso(metadata_before["last_update_check"])
    /\ now - metadata_before["last_update_check"].iso < UPDATE_CHECK_DAYS * TicksPerDay

\* C7: check_for_updates(force=False) with a last_update_check younger than
\* UPDATE_CHECK_DAYS returns True and leaves the store and the metadata as
\* they were, fetching nothing; with last_update_check absent or at least
\* UPDATE_CHECK_DAYS old, or with force=True, the sync proceeds.
C7_ScheduleGate ==
    spc \in {"fetching", "fetched", "returned"}
        => /\ gate_open <=> (force \/ ~LastCheckYoung)
           /\ ~gate_open => /\ spc = "returned"
                            /\ sync_returned = "True"
                            /\ awards_table = table_before
                            /\ scraper_metadata = metadata_before
                            /\ fetched = <<>>

\* The gate held back a sync called two days after the last one, although
\* the source had a new record to give.
C7_Witness ==
    /\ spc = "returned"
    /\ ~force
    /\ ~gate_open
    /\ sync_returned = "True"
    /\ metadata_before["last_update_check"] = IsoFormat(now - 2 * TicksPerDay)
    /\ Len(source) > 0
    /\ InWindow(source[1])
    /\ ~IdentityKnownBefore(source[1])

\* C11: every run that ended, however it ended, has written
\* total_records_downloaded and download_interrupted before returning,
\* the flag being "false" exactly when the run completed and "true" when
\* it was aborted.
C11_EndedRunWroteFinalMetadata ==
    hpc = "returned"
        => /\ scraper_metadata["total_records_downloaded"] = StrV(IntToChars(total_downloaded))
           /\ scraper_metadata["download_interrupted"]
                = (IF exit_path = "completed" THEN FalseText ELSE TrueText)

\* C12: a run during which the signal handler set the cancellation flag
\* ends with download_interrupted persisted as "true" and returns a
\* non-success status, having fetched no page after its batch in progress.
C12_CancelledRunPersistsFlag ==
    [][(hpc \in {"loop", "fetch", "batch", "finish"} /\ interrupted /\ hpc' = "returned")
          => /\ returned' = "False"
             /\ scraper_metadata'["download_interrupted"] = TrueText]_vars

\* The step that processes a page and goes back to the loop test.
C17_PageStep ==
    (hpc = "batch" /\ hpc' = "loop")
        => offset' = offset + (IF Len(batch) > 0 THEN Len(batch) ELSE BATCH_SIZE)

\* C17: after a non-empty page of k raw records the offset advances by
\* exactly k, whatever the validator dropped; after an empty page that does
\* not end the run it advances by BATCH_SIZE.
C17_OffsetAdvancesByRawCount == [][C17_PageStep]_vars

\* A last page of one record, which the validator dropped: the offset is 1
\* and nothing is stored.
C17_Witness ==
    /\ hpc = "loop"
    /\ Len(source) = 1
    /\ ~KeepsAward(source[1])
    /\ served = {[pos |-> 1, at |-> 0]}
    /\ offset = 1
    /\ Len(awards_table) = 0

\* A run that fetch_batch failed has returned False.
C18_FailedFetchEnds == exit_path = "fetch" => (hpc = "returned" /\ returned = "False")

\* The failing call itself stores nothing, and after it this run fetches
\* and stores nothing more.
C18_FailedFetchStep ==
    /\ (exit_path # "fetch" /\ exit_path' = "fetch")
          => (awards_table' = awards_table /\ last_fetch' = offset)
    /\ (exit_path = "fetch" /\ runs' = runs)
          => (awards_table' = awards_table /\ last_fetch' = last_fetch)

\* C18: when fetch_batch reports failure the run ends as aborted: it
\* returns non-success, issues no further fetch and upserts nothing more.
C18_FetchFailureAborts == []C18_FailedFetchEnds /\ [][C18_FailedFetchStep]_vars

\* fetch_batch failed at the second page, after the first was stored, with
\* records of the source still to come.
C18_Witness ==
    /\ exit_path = "fetch"
    /\ hpc = "returned"
    /\ last_fetch = BATCH_SIZE
    /\ Len(awards_table) = BATCH_SIZE
    /\ Len(source) > BATCH_SIZE

\* A call of fetch_batch after the first of the run.
C19_FetchStep ==
    (hpc = "loop" /\ hpc' = "fetch" /\ last_fetch >= 0)
        => last_fetch' > last_fetch

\* C19: within one run the offsets passed to successive fetch_batch calls
\* are strictly increasing.
C19_FetchOffsetsIncrease == [][C19_FetchStep]_vars

\* Three calls: an empty page at 0, a page at BATCH_SIZE, a call at
\* 2 * BATCH_SIZE.
C19_Witness ==
    /\ first_fetch = 0
    /\ last_fetch = 2 * BATCH_SIZE
    /\ hpc = "batch"
    /\ \E s \in served : s.at = BATCH_SIZE
    /\ ~(\E s \in served : s.at = 0)

\* C20: whenever last_download_offset holds a value c written by the
\* current run, every page this run fetched at an offset below c has had
\* its valid records upserted and committed.
C20_CheckpointCoversProcessedPages ==
    last_checkpoint >= 0
        => LET c == DigitsVal(scraper_metadata["last_download_offset"].str)
           IN  \A s \in served :
                  (s.at < c /\ KeepsAward(source[s.pos])) => Stored(source[s.pos])

\* A checkpoint at 2 * BATCH_SIZE while the page fetched there is still in
\* hand, unprocessed.
C20_Witness ==
    /\ last_checkpoint = 2 * CHECKPOINT_INTERVAL * BATCH_SIZE
    /\ hpc = "batch"
    /\ last_fetch = last_checkpoint
    /\ \E s \in served : s.at = last_checkpoint /\ KeepsAward(source[s.pos])
                         /\ ~Stored(source[s.pos])
    /\ \E s \in served : s.at < last_checkpoint /\ Stored(source[s.pos])

\* The attempts of the call that met a transport failure, from the first on.
TransportPrefix ==
    Cardinality({i \in 1..MAX_RETRIES : \A j \in 1..i : fetch_script[j] = "transport"})

FetchEnded == fpc \in {"returned", "raised"}

\* The stepwise call and fetch_batch as the harvest uses it agree.
C13_SameAsFetchBatch ==
    FetchEnded => fetch_result = fetch_batch(fetch_script, fetch_page)

C13_FirstSuccessReturns ==
    (FetchEnded /\ TransportPrefix < MAX_RETRIES
        /\ fetch_script[TransportPrefix + 1] \in {"array", "docs"})
    => /\ requests_made = TransportPrefix + 1
       /\ retry_waits = TransportPrefix
       /\ fetch_result = [awards |-> fetch_page]

C13_AllFailedReturnsNone ==
    (FetchEnded /\ TransportPrefix = MAX_RETRIES)
    => /\ requests_made = MAX_RETRIES
       /\ retry_waits = MAX_RETRIES - 1
       /\ fpc = "returned"
       /\ fetch_result = None

\* A transport failure with attempts left is followed by the wait, and the
\* wait by the next request.
C13_RetryStep ==
    /\ (fpc = "request" /\ fetch_script[fetch_attempt + 1] = "transport"
          /\ fetch_attempt + 1 < MAX_RETRIES)
       => fpc' = "wait"
    /\ fpc = "wait" => (fpc' = "request" /\ retry_waits' = retry_waits + 1)
    /\ (fpc' = "request" /\ fpc # "request") => fpc = "wait"

\* C13: fetch_batch sends at most MAX_RETRIES requests for one page; a
\* transport failure is followed by a RETRY_DELAY wait and another attempt
\* while attempts remain; the first successful attempt returns its records
\* at once; when all MAX_RETRIES attempts fail the call returns None
\* rather than raising.
C13_FetchRetries ==
    /\ [](requests_made <= MAX_RETRIES)
    /\ []C13_SameAsFetchBatch
    /\ []C13_FirstSuccessReturns
    /\ []C13_AllFailedReturnsNone
    /\ [][C13_RetryStep]_vars

C13_Witness ==
    /\ fpc = "returned"
    /\ TransportPrefix = MAX_RETRIES - 1
    /\ fetch_script[MAX_RETRIES] = "array"
    /\ requests_made = MAX_RETRIES
    /\ retry_waits = MAX_RETRIES - 1
    /\ Len(fetch_page) > 0
    /\ fetch_result = [awards |-> fetch_page]

\* C14: a response body that is not JSON makes fetch_batch report failure
\* after that single attempt: no request follows it, and the call
\* returns None.
C14_BadJsonFailsAtOnce ==
    \A i \in 1..requests_made :
        fetch_script[i] \in BadJsonKinds
        => /\ requests_made = i
           /\ fpc = "returned"
           /\ fetch_result = None

\* C15: every check_for_updates run that went past the schedule test ends
\* with last_update_check holding the time of the run and
\* last_update_new_records the number of new records the run found.
C15_CheckAlwaysRecorded ==
    (spc = "returned" /\ gate_open)
    => /\ scraper_metadata["last_update_check"] = IsoFormat(now)
       /\ scraper_metadata["last_update_new_records"] =
            StrV(IntToChars(Len(identify_new_awards(all_recent_awards, existing_contracts))))

\* The call executed a statement, and the statement raised sqlite3.Error.
MetStorageFault ==
    /\ gpc = "done"
    /\ gateway_fault
    /\ ~(gateway_op = "insert_awards" /\ Len(gateway_awards) = 0)

\* C16: every DatabaseManager operation (insert_awards, get_record_count,
\* get_latest_date, get_metadata, set_metadata) that meets a storage fault
\* raises it to its caller, and none returns 0 or None in its place.
C16_StorageFaultSurfaces ==
    MetStorageFault => gateway_result.raised

\* The offsets of the non-empty pages this run fetched since its latest
\* checkpoint (since its start when it has written none).
PagesSinceCheckpoint ==
    {s.at : s \in {x \in served : x.at >= (IF last_checkpoint < 0 THEN 0 ELSE last_checkpoint)}}

\* C21: a checkpoint is persisted after every CHECKPOINT_INTERVAL batches
\* processed: between two fetches the run is never CHECKPOINT_INTERVAL
\* processed pages past its latest checkpoint, whatever the starting offset
\* and the pages were.
C21_CheckpointEveryInterval ==
    hpc = "loop" => Cardinality(PagesSinceCheckpoint) < CHECKPOINT_INTERVAL

\* C28: a record that passes validate_batch is stored whichever
\* non-required columns it lacks, and it never aborts the run: once its
\* page has been processed the record is in the store.
C28_ValidRecordsStored ==
    hpc \in {"loop", "finish", "returned"} =>
        \A s \in served : KeepsAward(source[s.pos]) => Stored(source[s.pos])

\* The response the call ended on.
LastResponse == fetch_script[requests_made]

\* C29: fetch_batch returns the records for a bare array and for an object
\* with docs, and reports failure for every other parsed body: a scalar,
\* and an object without docs.
C29_OnlySequencesReturned ==
    FetchEnded =>
        /\ LastResponse \in {"array", "docs"} => fetch_result = [awards |-> fetch_page]
        /\ LastResponse \in {"scalar", "object"} => fetch_result = None

\* The offset of the first of the latest `n` fetches, when these met empty
\* pages: each empty page moved the offset by BATCH_SIZE.
StreakStart(n) == last_fetch - (n - 1) * BATCH_SIZE

\* Between two fetches the counter is zero exactly when the latest page had
\* a record; at n > 0 the latest n pages had none, and the fetch before
\* them, when there was one, brought a page that ended where they start.
C30_StreakCountsEmptyPages ==
    (hpc = "loop" /\ last_fetch >= 0) =>
        LET n == consecutive_empty_batches
        IN  /\ n = 0 <=> \E s \in served : s.at = last_fetch
            /\ n > 0 =>
                 /\ \A s \in served : s.at < StreakStart(n)
                 /\ \/ first_fetch = StreakStart(n)
                    \/ \E s \in served : s.pos = StreakStart(n)

\* Processing a page adds one to the counter when the page is empty and
\* sets it to zero when it is not; nothing else changes it within a run.
C30_StreakStep ==
    /\ (hpc = "batch" /\ hpc' # "batch") =>
          consecutive_empty_batches' =
              (IF Len(batch) = 0 THEN consecutive_empty_batches + 1 ELSE 0)
    /\ (hpc # "batch" /\ runs' = runs) =>
          consecutive_empty_batches' = consecutive_empty_batches

\* C30: the empty-streak counter equals the number of zero-length pages
\* fetched consecutively up to now; a page with at least one raw record
\* resets it to zero, also when the validator drops every record of it.
C30_StreakCounter ==
    /\ []C30_StreakCountsEmptyPages
    /\ [][C30_StreakStep]_vars

\* A page whose records were all dropped, fetched right after an empty
\* page, has reset the counter.
C30_Witness ==
    /\ hpc = "loop"
    /\ consecutive_empty_batches = 0
    /\ last_fetch > first_fetch
    /\ ~(\E s \in served : s.pos = last_fetch)
    /\ \E s \in served : s.at = last_fetch
    /\ \A s \in served : s.at = last_fetch => ~KeepsAward(source[s.pos])

\* C22: between two consecutive page fetches of one run, where the first
\* succeeded, the API_DELAY wait takes place, also when the first page was
\* empty or held no valid record.
C22_DelayBetweenFetches ==
    [][(last_fetch >= 0 /\ last_fetch' >= 0 /\ last_fetch' # last_fetch) => delayed]_vars

\* insert_awards raised on the new awards of this sync.
SyncStorageFault ==
    LET new_awards == identify_new_awards(all_recent_awards, existing_contracts)
    IN  Len(new_awards) > 0 /\ insert_awards(table_before, new_awards, now).raised

\* C23: a page-fetch failure or a storage fault during check_for_updates
\* makes the run end as aborted: it returns non-success.
C23_SyncFailureAborts ==
    (spc = "returned" /\ gate_open /\ (sync_fetch_failed \/ SyncStorageFault))
        => sync_returned = "False"

\* C24: a page fetch of the incremental sync follows the policy of
\* fetch_batch: on a transport failure it is tried again, up to
\* MAX_RETRIES attempts with RETRY_DELAY between them, and it ends as
\* fetch_batch ends on the same responses.
C24_SyncFetchRetries ==
    (/\ fpc = "returned"
     /\ fetch_script[1] = "transport"
     /\ \A i \in 1..MAX_RETRIES : fetch_script[i] \notin BadJsonKinds)
    => /\ requests_made = (IF TransportPrefix < MAX_RETRIES
                           THEN TransportPrefix + 1 ELSE MAX_RETRIES)
       /\ retry_waits = requests_made - 1
       /\ fetch_result = fetch_batch(fetch_script, fetch_page)

\* The page the walk stopped at without moving past it: what it added to
\* the scanned records beyond the offset.
StoppedAtPage == {fetched[i] : i \in (sync_offset + 1)..Len(fetched)}

\* C25: fetch_recent_awards scans fewer than 10000 + BATCH_SIZE records;
\* before that cap it stops at a page that holds records only when every
\* record of the page carries a date older than the window threshold, and
\* never at a page that holds an in-window record.
C25_WalkStopsOnlyAtOldPage ==
    /\ sync_offset < SAFETY_LIMIT + BATCH_SIZE
    /\ spc \in {"fetched", "returned"} =>
         \A award \in StoppedAtPage :
            /\ IsStr(Get(award, "proposal_award_date"))
            /\ StrLess(award["proposal_award_date"].str,
                       threshold_str(now, UPDATE_LOOKBACK_DAYS).str)

\* C26: on a source that holds finitely many records and answers every
\* request, download_all_awards eventually returns, and it returns as
\* completed, aborted by a failure, or aborted by cancellation.
C26_RunTerminates ==
    /\ (hpc \in {"loop", "fetch", "batch", "finish"}) ~> (hpc = "returned")
    /\ [](hpc = "returned" =>
            exit_path \in {"completed", "fetch", "fatal", "storage", "cancelled"})

\* A run that every request was answered in, ended as completed with
\* records stored.
C26_Witness ==
    /\ hpc = "returned"
    /\ exit_path = "completed"
    /\ Len(awards_table) = MaxLiveSource
    /\ ~gap_served

\* No run is inside download_all_awards or check_for_updates.
NoRunUnderWay == hpc \in {"idle", "returned"} /\ spc \in {"off", "idle", "returned"}

C27_AtMostOneOpen == peak_connections <= 1 /\ open_connections \in {0, 1}

C27_ClosedOnReturn == NoRunUnderWay => open_connections = 0

\* C27: at most one storage connection is open at any time, and once
\* download_all_awards or check_for_updates has returned, by whichever
\* path, no connection the run opened is still open.
C27_ConnectionsScoped == [](C27_AtMostOneOpen /\ C27_ClosedOnReturn)

\* A harvest that a storage fault aborted and an update check that a
\* storage fault aborted too, each having held a connection.
C27_Witness ==
    /\ hpc = "returned"
    /\ exit_path = "storage"
    /\ spc = "returned"
    /\ sync_returned = "False"
    /\ peak_connections = 1
    /\ open_connections = 0

RowsHolding(rows, key) == {i \in 1..Len(rows) : rows[i].key = key}

\* What the table answers for every key is the value written last, None for
\* a key never written, and a written key has one row.
C31_LastValueHeld ==
    \A key \in METADATA_KEYS :
        /\ select_metadata(metadata_rows, key) = get_metadata(scraper_metadata, key)
        /\ Cardinality(RowsHolding(metadata_rows, key)) =
               (IF IsAbsent(scraper_metadata[key]) THEN 0 ELSE 1)

C31_GetReturnsIt ==
    gateway_op = "get_metadata" =>
        gateway_result = Returns(get_metadata(scraper_metadata, gateway_key))

C31_OtherKeysKept ==
    gateway_op' = "set_metadata" =>
        \A key \in METADATA_KEYS \ {gateway_key'} :
            select_metadata(metadata_rows', key) = select_metadata(metadata_rows, key)

\* C31: set_metadata overwrites: get_metadata returns the value written
\* last and the table holds one row for the key; a key never written reads
\* as None; set_metadata leaves the value of every other key as it was.
C31_MetadataOverwrites ==
    [](C31_LastValueHeld /\ C31_GetReturnsIt) /\ [][C31_OtherKeysKept]_vars

\* A key was written twice, another key once, and the first is read back.
C31_Witness ==
    /\ gateway_op = "get_metadata"
    /\ Len(metadata_rows) = 2
    /\ metadata_rows[2].key = gateway_key
    /\ metadata_rows[2].id = 3
    /\ gateway_result = Returns(metadata_rows[2].value)

C32_TablesKept ==
    gateway_op' = "create_tables" /\ now' # now =>
        /\ awards_table' = awards_table
        /\ metadata_rows' = metadata_rows
        /\ \A key \in METADATA_KEYS :
               select_metadata(metadata_rows', key) = select_metadata(metadata_rows, key)

\* C32: create_tables is idempotent: on a store that holds records and
\* metadata it leaves every stored record and every metadata value as it was.
C32_CreateTablesIdempotent == [][C32_TablesKept]_vars

\* create_tables has just been called on a store with records and metadata.
C32_Witness ==
    /\ gateway_op = "create_tables"
    /\ Len(awards_table) > 0
    /\ Len(metadata_rows) > 0
    /\ tables = TABLES

\* C33: initial_download_completed is written only by a run that reached
\* the completion signal (three empty pages in a row); a run ended by
\* cancellation or by a failure leaves it unset.
C33_CompletedOnlyWhenComplete ==
    ~IsAbsent(scraper_metadata["initial_download_completed"])
        => (hpc = "returned" /\ exit_path = "completed")

StoredIdentities(rows) == {Identity(rows[i]) : i \in 1..Len(rows)}

C34_NothingRemoved ==
    /\ Len(awards_table') >= Len(awards_table)
    /\ StoredIdentities(awards_table) \subseteq StoredIdentities(awards_table')

\* C34: the stored record count never decreases: no step of a harvest run
\* or of an update check removes a stored identity.
C34_CountNeverDecreases == [][C34_NothingRemoved]_vars

\* A harvest run from offset zero replaced the row an earlier run had
\* stored and added a record, and an update check followed.
C34_Witness ==
    /\ start_count > 0
    /\ ~resume
    /\ \E i \in 1..Len(awards_table) :
           /\ awards_table[i].created_at > 0
           /\ Identity(awards_table[i]) = Identity(HarvestedStore(1)[1])
    /\ Len(awards_table) > start_count
    /\ spc = "returned"
    /\ sync_returned = "True"

\* C35: the value an update check writes to last_update_new_records is
\* the number of rows it added to the store, also when the records fetched
\* hold the same identity more than once.
C35_NewRecordsIsRowsAdded ==
    (spc = "returned" /\ sync_returned = "True")
        => scraper_metadata["last_update_new_records"]
             = StrV(IntToChars(Len(awards_table) - Len(table_before)))

\* C36: when a run, resumed or not, ends as completed, the value it writes
\* to total_records_downloaded is the number of records stored then.
C36_TotalIsStoredCount ==
    (hpc = "returned" /\ exit_path = "completed")
        => scraper_metadata["total_records_downloaded"]
             = StrV(IntToChars(get_record_count(awards_table)))

C37_CreatedAtStep ==
    \A i \in 1..Len(awards_table), j \in 1..Len(awards_table') :
        Identity(awards_table[i]) = Identity(awards_table'[j])
            => awards_table'[j].created_at = awards_table[i].created_at

\* C37: upserting a record whose identity is already stored keeps the
\* created_at of its row.
C37_CreatedAtKept == [][C37_CreatedAtStep]_vars

LastCheckValue == scraper_metadata["last_update_check"]

LastCheckUnreadable == gateway_fault \/ ~IsIso(LastCheckValue)

WholeDaysElapsed ==
    /\ IsIso(LastCheckValue)
    /\ now - LastCheckValue.iso >= UPDATE_CHECK_DAYS * TicksPerDay

\* C38: should_check_for_updates returns true exactly when
\* last_update_check is absent or unreadable or at least UPDATE_CHECK_DAYS
\* whole days old: an unforced sync then proceeds, and is skipped otherwise.
C38_ShouldCheckExactly ==
    (spc \in {"fetching", "returned"} /\ ~force)
        => /\ gate_open <=> (LastCheckUnreadable \/ WholeDaysElapsed)
           /\ spc = (IF LastCheckUnreadable \/ WholeDaysElapsed THEN "fetching" ELSE "returned")

\* An unforced sync went ahead on a last_update_check that is no timestamp.
C38_Witness ==
    /\ spc = "fetching"
    /\ ~force
    /\ ~gateway_fault
    /\ LastCheckValue = StrV(<<"x">>)
    /\ gate_open

====
